---- MODULE Spec2Model ----
(***************************************************************************)
(* Turn processing of the NoteApp chat agent (chat-service).                *)
(*                                                                         *)
(* A turn is one call of NoteAppChatAgent.invoke: it seeds the graph       *)
(* state, the LangGraph workflow runs analyze_input, then search_notes /   *)
(* get_content / synthesize_answer / casual_chat / handle_error, and       *)
(* invoke extracts the answer.  The repository holds the node functions    *)
(* twice: inlined in chat_agent.py ("inline") and as functions in          *)
(* modules/agent ("modular"); impl says which set is wired into the graph  *)
(* built by NoteAppChatAgent.__init__.                                     *)
(*                                                                         *)
(* Relevance scores are kept in hundredths (0.73 is 73): the search tool   *)
(* prints them with two decimals.  None is "None" for strings, NoId for    *)
(* item ids and <<>> for the optional result list.                         *)
(***************************************************************************)
EXTENDS Integers, Sequences, FiniteSets, TLC

VARIABLES
    impl,         \* which node functions the graph is built from
    request,      \* per slot: the arguments of the pending invoke call
    env,          \* per slot: what the notes backend answers to a search
    pc,           \* per slot: the node about to run / position inside invoke
    st,           \* per slot: the GraphState of the thread (checkpointed)
    search_auth,  \* jwt_token / user_id fields of the shared SearchNoteAppTool
    content_auth, \* jwt_token / user_id fields of the shared GetNoteAppContentTool
    sent,         \* backend requests issued so far, with the credentials they carried
    fetch_log,    \* per slot: the content-fetch calls of the turn, in order
    hist,         \* per slot: counters of node executions in the turn
    frame,        \* per slot: locals of the running node and the last node's update
    result        \* per slot: what invoke returned

vars == <<impl, request, env, pc, st, search_auth, content_auth, sent, fetch_log, hist, frame, result>>

-----------------------------------------------------------------------------
(* Bounds of the model *)

MaxPrior == 2      \* entries the thread's checkpoint may hold before the turn
MaxHistory == 1    \* exchanges in the caller-supplied chat_history
MaxLines == 2      \* lines of a search tool output given to the parser directly

Turns == {1, 2}
Impls == {"inline", "modular"}

None == "None"
NoId == -1

-----------------------------------------------------------------------------
(* Generic helpers *)

Truthy(str) == str # None /\ str # ""

Range(f) == {f[i] : i \in DOMAIN f}

\* order-preserving removal of duplicates (first occurrence kept)
RECURSIVE Dedup(_)
Dedup(seq) ==
    IF seq = <<>> THEN <<>>
    ELSE LET init == Dedup(SubSeq(seq, 1, Len(seq) - 1))
             last == seq[Len(seq)]
         IN IF last \in Range(init) THEN init ELSE Append(init, last)

\* phrase (a sequence of words) occurs contiguously in words at position i
MatchesAt(phrase, words, i) ==
    /\ i >= 1
    /\ i + Len(phrase) - 1 <= Len(words)
    /\ SubSeq(words, i, i + Len(phrase) - 1) = phrase

\* a channel without the merging reducer: the update replaces the map
DictReplace(x, y) == y

\* dict merge {**x, **y}: keys of y win, keys of x are kept
DictMerge(x, y) ==
    [k \in (DOMAIN x) \cup (DOMAIN y) |-> IF k \in DOMAIN y THEN y[k] ELSE x[k]]

EmptyMap == [k \in {} |-> None]

-----------------------------------------------------------------------------
(* Utterances.  A text is the sequence of its words (all lower case, as  *)
(* text.lower() leaves them); <<>> is the empty or whitespace-only text. *)

U_EMPTY == <<>>
U_HELLO == <<"hello", "there">>
U_QUERY == <<"do", "i", "have", "notes", "on", "budget">>
U_GET == <<"give", "me", "the", "full", "text", "of", "the", "groceries", "note">>
U_OPINION == <<"what", "do", "you", "think">>
U_UPDATE == <<"please", "update", "it">>
U_FIND == <<"find", "the", "content", "of", "the", "groceries", "note">>
U_CANFIND == <<"can", "you", "find", "my", "notes">>
U_TEXT == <<"show", "me", "the", "text", "of", "the", "groceries", "note">>

Utterances ==
    {U_EMPTY, U_HELLO, U_QUERY, U_GET, U_OPINION, U_UPDATE, U_FIND, U_CANFIND, U_TEXT}

\* Python's `w in text` is a substring test: the pairs <<w, word>> where the
\* trigger w lies inside a longer word of the utterances above.
InsideWord == {<<"get", "budget">>, <<"the", "there">>, <<"note", "notes">>}

\* trigger (a phrase of one or more words) in text
Occurs(trigger, text) ==
    \/ \E i \in 1..Len(text) : MatchesAt(trigger, text, i)
    \/ /\ Len(trigger) = 1
       /\ \E i \in 1..Len(text) : <<trigger[1], text[i]>> \in InsideWord

-----------------------------------------------------------------------------
(* conversation/intent.py *)

IntentOrder ==
    <<"query_notes", "search_request", "create_note", "opinion_notes",
      "emotional", "casual", "action", "meta">>

TriggerWords(intent) ==
    CASE intent = "query_notes" ->
           {<<"notes">>, <<"transcripts">>, <<"written">>, <<"saved">>, <<"recorded">>,
            <<"find">>, <<"search">>, <<"look">>}
      [] intent = "search_request" ->
           {<<"search">>, <<"find">>, <<"lookup">>, <<"locate">>, <<"get">>, <<"show">>,
            <<"display">>}
      [] intent = "create_note" ->
           {<<"create">>, <<"add">>, <<"make">>, <<"new", "note">>, <<"save">>,
            <<"write", "down">>, <<"document">>}
      [] intent = "opinion_notes" ->
           {<<"like">>, <<"hate">>, <<"prefer">>, <<"think">>, <<"feel">>, <<"opinion">>}
      [] intent = "action" ->
           {<<"create">>, <<"make">>, <<"add">>, <<"update">>, <<"delete">>, <<"remove">>,
            <<"change">>}
      [] intent = "meta" ->
           {<<"help">>, <<"tutorial">>, <<"guide">>, <<"documentation">>, <<"manual">>,
            <<"instructions">>}
      [] OTHER -> {}

TriggerPatterns(intent) ==
    CASE intent = "query_notes" ->
           {<<"do", "i", "have">>, <<"where", "is">>, <<"find">>, <<"search">>,
            <<"look", "for">>, <<"can", "you", "find">>}
      [] intent = "search_request" ->
           {<<"where", "is">>, <<"how", "do", "i">>, <<"how", "to">>,
            <<"can", "you", "find">>, <<"do", "you", "know">>}
      [] intent = "create_note" ->
           {<<"create", "a", "note">>, <<"add", "a", "note">>, <<"make", "a", "new", "note">>,
            <<"save", "this", "as", "a", "note">>, <<"can", "you", "create", "a", "note">>,
            <<"i", "want", "to", "add", "a", "note">>, <<"let's", "make", "a", "note">>}
      [] intent = "opinion_notes" ->
           {<<"what", "do", "you", "think">>, <<"how", "do", "you", "feel">>,
            <<"do", "you", "like">>}
      [] intent = "action" ->
           {<<"can", "you">>, <<"please">>, <<"would", "you">>, <<"i", "want", "you", "to">>,
            <<"i", "need", "you", "to">>}
      [] intent = "meta" ->
           {<<"how", "do", "i">>, <<"what", "is">>, <<"explain">>, <<"tell", "me", "about">>}
      [] OTHER -> {}

\* scores in tenths: 0.3 per trigger word, 0.5 per trigger pattern
Score(intent, text) ==
    3 * Cardinality({w \in TriggerWords(intent) : Occurs(w, text)})
    + 5 * Cardinality({p \in TriggerPatterns(intent) : Occurs(p, text)})

\* max(scores.items(), key=...) keeps the first maximal entry in enum order
MaxIntentIndex(text) ==
    CHOOSE i \in 1..Len(IntentOrder) :
        /\ \A j \in 1..Len(IntentOrder) : Score(IntentOrder[j], text) <= Score(IntentOrder[i], text)
        /\ \A j \in 1..(i - 1) : Score(IntentOrder[j], text) < Score(IntentOrder[i], text)

\* variant: the confidence is the raw score, without min(score, 1.0)
classify_intent_uncapped(text) ==
    LET best == IntentOrder[MaxIntentIndex(text)]
        top == Score(best, text)
    IN IF top = 0 THEN [intent |-> "casual", confidence |-> 5]
       ELSE [intent |-> best, confidence |-> top]

\* variant: a best score below 0.5 is taken for small talk
classify_intent_weak_is_casual(text) ==
    LET best == IntentOrder[MaxIntentIndex(text)]
        top == Score(best, text)
    IN IF top < 5 THEN [intent |-> "casual", confidence |-> 5]
       ELSE [intent |-> best, confidence |-> IF top < 10 THEN top ELSE 10]

classify_intent(text) ==
    LET best == IntentOrder[MaxIntentIndex(text)]
        top == Score(best, text)
    IN IF top = 0 THEN [intent |-> "casual", confidence |-> 5]
       ELSE [intent |-> best, confidence |-> IF top < 10 THEN top ELSE 10]

-----------------------------------------------------------------------------
(* conversation/keywords.py, conversation/tools_analyzer.py, analyzer.py *)

StopWords ==
    {"a", "an", "and", "are", "as", "at", "be", "by", "for", "from", "has", "he", "in",
     "is", "it", "its", "of", "on", "that", "the", "to", "was", "were", "will", "with",
     "this", "but", "they", "have", "had", "what", "when", "where", "who", "which",
     "why", "how"}

DomainTerms ==
    {"note", "notes", "transcript", "transcripts", "search", "find", "create", "update",
     "delete", "show", "help", "system", "tag", "category", "folder", "organize"}

RECURSIVE KeepKeywords(_)
KeepKeywords(words) ==
    IF words = <<>> THEN <<>>
    ELSE IF Head(words) \notin StopWords \/ Head(words) \in DomainTerms
         THEN <<Head(words)>> \o KeepKeywords(Tail(words))
         ELSE KeepKeywords(Tail(words))

extract_keywords(text) == Dedup(KeepKeywords(text))

IntentTools(intent) ==
    CASE intent = "query_notes" -> <<"search_noteapp">>
      [] intent = "search_request" -> <<"search_noteapp", "get_noteapp_content">>
      [] OTHER -> <<>>

IndicatorTools(keywords, indicator, tools) ==
    IF \E k \in indicator : k \in Range(keywords) THEN tools ELSE <<>>

determine_required_tools(intent, keywords) ==
    Dedup(IntentTools(intent)
          \o IndicatorTools(keywords, {"find", "search", "look", "where", "any", "list"},
                            <<"search_noteapp", "get_noteapp_content">>)
          \o IndicatorTools(keywords, {"create", "add", "new", "make"}, <<"create_note">>)
          \o IndicatorTools(keywords, {"update", "edit", "change", "modify"}, <<"update_note">>)
          \o IndicatorTools(keywords, {"delete", "remove", "clear"}, <<"delete_note">>))

NoAnalysis ==
    [intent |-> None, confidence |-> 0, keywords |-> <<>>, requires_tool |-> FALSE,
     required_tools |-> <<>>]

\* the analysis without the early return for an empty message
analyze_no_empty_case(text) ==
    LET c == classify_intent(text)
        kw == extract_keywords(text)
        tools == determine_required_tools(c.intent, kw)
    IN [intent |-> c.intent, confidence |-> c.confidence, keywords |-> kw,
        requires_tool |-> tools # <<>>, required_tools |-> tools]

analyze(text) ==
    IF text = <<>>
    THEN [intent |-> "casual", confidence |-> 0, keywords |-> <<>>,
          requires_tool |-> FALSE, required_tools |-> <<>>]
    ELSE LET c == classify_intent(text)
             kw == extract_keywords(text)
             tools == determine_required_tools(c.intent, kw)
         IN [intent |-> c.intent, confidence |-> c.confidence, keywords |-> kw,
             requires_tool |-> tools # <<>>, required_tools |-> tools]

-----------------------------------------------------------------------------
(* agent/nodes_synthesis.py: extract_target_title_from_get_request          *)
(* re.search(r"(?:content of|text of|details of|full text of|provide the    *)
(* content for) (?:the )?\"?(.*?)\"? note", text, re.IGNORECASE)             *)

TitleMarkers ==
    {<<"content", "of">>, <<"text", "of">>, <<"details", "of">>, <<"full", "text", "of">>,
     <<"provide", "the", "content", "for">>}

\* chat_agent.py _analyze_input_node: (?:content of|full text of|details of)
InlineTitleMarkers == {<<"content", "of">>, <<"full", "text", "of">>, <<"details", "of">>}

StartsWithNote(word) == word = "note" \/ <<"note", word>> \in InsideWord

\* the lazy group (.*?) followed by " note": the words before the first later
\* word that begins with "note"; <<>> when there is none (no match here)
LazyTitle(rest) ==
    IF \E j \in 2..Len(rest) : StartsWithNote(rest[j])
    THEN LET j == CHOOSE k \in 2..Len(rest) :
                      /\ StartsWithNote(rest[k])
                      /\ \A m \in 2..(k - 1) : ~StartsWithNote(rest[m])
         IN SubSeq(rest, 1, j - 1)
    ELSE <<>>

\* (?:the )? is tried first with "the" consumed, then without
TitleAfter(rest) ==
    IF rest # <<>> /\ rest[1] = "the" /\ LazyTitle(Tail(rest)) # <<>>
    THEN LazyTitle(Tail(rest))
    ELSE LazyTitle(rest)

TitleAt(text, i, markers) ==
    IF \E m \in markers : MatchesAt(m, text, i)
    THEN LET m == CHOOSE mm \in markers : MatchesAt(mm, text, i)
         IN TitleAfter(SubSeq(text, i + Len(m), Len(text)))
    ELSE <<>>

\* leftmost match; <<>> stands for None (and for an empty title: both falsy)
SearchTitle(text, markers) ==
    IF \E i \in 1..Len(text) : TitleAt(text, i, markers) # <<>>
    THEN LET i == CHOOSE k \in 1..Len(text) :
                      /\ TitleAt(text, k, markers) # <<>>
                      /\ \A m \in 1..(k - 1) : TitleAt(text, m, markers) = <<>>
         IN TitleAt(text, i, markers)
    ELSE <<>>

extract_target_title_from_get_request(text) == SearchTitle(text, TitleMarkers)

-----------------------------------------------------------------------------
(* Search results and the choice of the item to fetch *)

\* a floor that lets every result through
MIN_RELEVANCE_SEARCH_none == 0 - 100

MIN_RELEVANCE_SEARCH == 0        \* MIN_RELEVANCE_THRESHOLD = 0.0 in search_notes
MIN_RELEVANCE_GET_CONTENT == 1   \* MIN_RELEVANCE_THRESHOLD = 0.01 in get_content
MIN_RELEVANCE_ROUTE == 10        \* MIN_RELEVANCE_THRESHOLD = 0.1 in route_after_get_content
MAX_ITEMS_TO_FETCH == 2
\* a ceiling that is off by one
MAX_ITERATIONS_off_by_one == 5 + 1

MAX_ITERATIONS == 5

Key(item) == <<item.type, item.id>>

NoItem == [id |-> NoId, type |-> None, title |-> "", relevance |-> 0]

\* [res for res in results if res["relevance"] >= floor]
FilterRelevant(results, floor) == SelectSeq(results, LAMBDA res : res.relevance >= floor)

\* an order that puts the later of two equally relevant results first
BeforeUnstable(results, i, j) ==
    \/ results[i].relevance > results[j].relevance
    \/ results[i].relevance = results[j].relevance /\ i > j

\* sorted(..., key=relevance, reverse=True) is stable: result i comes before
\* result j when it is more relevant, or as relevant and earlier in the list
Before(results, i, j) ==
    \/ results[i].relevance > results[j].relevance
    \/ results[i].relevance = results[j].relevance /\ i < j

SortDesc(results) ==
    [k \in 1..Len(results) |->
        results[CHOOSE i \in 1..Len(results) :
                    Cardinality({j \in 1..Len(results) : Before(results, j, i)}) = k - 1]]

\* the choice without the test against fetched_content_map
FirstOfAll(sorted, fetched) == IF sorted = <<>> THEN NoItem ELSE sorted[1]

\* for item in sorted: if key not in fetched_map: pick it; break
FirstUnfetched(sorted, fetched) ==
    IF \E i \in 1..Len(sorted) : Key(sorted[i]) \notin DOMAIN fetched
    THEN sorted[CHOOSE i \in 1..Len(sorted) :
                    /\ Key(sorted[i]) \notin DOMAIN fetched
                    /\ \A j \in 1..(i - 1) : Key(sorted[j]) \in DOMAIN fetched]
    ELSE NoItem

PickNext(results, floor, fetched) ==
    FirstUnfetched(SortDesc(FilterRelevant(results, floor)), fetched)

\* state.get("search_results"): None and [] are both falsy
ResultsOf(s) == IF s.search_results = <<>> THEN <<>> ELSE s.search_results[1]

-----------------------------------------------------------------------------
(* Output of the search tool and its parsing (search_notes_node)           *)
(* A line is "- <tok> (ID: <id>): <title> [Relevance: <rel>]" or free text. *)
(* The backend's relevance is kept in thousandths; the tool prints it with  *)
(* two decimals and the node parses the printed number (hundredths).        *)

\* an item of the backend's search response
BackendItem(type, id, title, relevance) ==
    [type |-> type, id |-> id, title |-> title, relevance |-> relevance]

\* f"{relevance:.2f}": thousandths to the nearest hundredth ("-0.00" parses to 0);
\* the scores used here never lie halfway between two hundredths
FormatRelevance(r) == IF r >= 0 THEN (r + 5) \div 10 ELSE 0 - ((5 - r) \div 10)

\* str.capitalize() of the item's type
Capitalize(type) ==
    CASE type \in {"note", "NOTE"} -> "Note"
      [] type = "transcript" -> "Transcript"
      [] type = "memo" -> "Memo"
      [] OTHER -> type

ItemLine(tok, id, title, rel) ==
    [tok |-> tok, id |-> id, title |-> title, rel |-> rel, has_rel |-> TRUE]
TextLine(what) ==
    [tok |-> what, id |-> NoId, title |-> "", rel |-> 0, has_rel |-> FALSE]

\* a pattern that does not look at the id
LineMatches_any_id(line) == line.tok \in {"Note", "Transcript"} /\ line.has_rel

\* the case-sensitive (Note|Transcript) token, \d+ for the id, a relevance bracket
LineMatches(line) ==
    /\ line.tok \in {"Note", "Transcript"}
    /\ line.id >= 0
    /\ line.has_rel

Lower(tok) == IF tok = "Note" THEN "note" ELSE IF tok = "Transcript" THEN "transcript" ELSE tok

\* titles written with blanks around them
PaddedTitles == {"   Extra Spaces  "}

\* \s*(.*?)\s* and title.strip(): the title without the blanks around it
Trim(title) == IF title = "   Extra Spaces  " THEN "Extra Spaces" ELSE title

RECURSIVE parse_search_output(_)
parse_search_output(lines) ==
    IF lines = <<>> THEN <<>>
    ELSE IF LineMatches(Head(lines))
         THEN <<[id |-> Head(lines).id, type |-> Lower(Head(lines).tok),
                 title |-> Trim(Head(lines).title), relevance |-> Head(lines).rel]>>
              \o parse_search_output(Tail(lines))
         ELSE parse_search_output(Tail(lines))

-----------------------------------------------------------------------------
(* GraphState and the reducers of its channels *)

HumanMessage(text) == [role |-> "human", content |-> text]
AIMessage(text) == [role |-> "ai", content |-> text]
ToolMessage(output, call_id) == [role |-> "tool", content |-> output, tool_call_id |-> call_id]

\* a state whose channels all take the last value written
ApplyUpdate_no_reducers(s, u) == [f \in DOMAIN s |-> IF f \in DOMAIN u THEN u[f] ELSE s[f]]

\* a merge that puts the new messages in front of the log
ApplyUpdate_prepend(s, u) ==
    [f \in DOMAIN s |->
        IF f \notin DOMAIN u THEN s[f]
        ELSE IF f = "messages" THEN u[f] \o s[f]
        ELSE IF f = "fetched_content_map" THEN DictMerge(s[f], u[f])
        ELSE u[f]]

\* a node's return value is merged into the state: messages by add_messages
\* (append), fetched_content_map by {**x, **y}, every other key is replaced
ApplyUpdate(s, u) ==
    [f \in DOMAIN s |->
        IF f \notin DOMAIN u THEN s[f]
        ELSE IF f = "messages" THEN s[f] \o u[f]
        ELSE IF f = "fetched_content_map" THEN DictMerge(s[f], u[f])
        ELSE u[f]]

-----------------------------------------------------------------------------
(* agent/routing_logic.py (the same code as the _route_* methods of chat_agent.py) *)

\* a router that sends a turn with a search_query straight to get_content
route_after_analysis_skips_search(s) ==
    IF Truthy(s.error_message) \/ s.initial_analysis.intent = None THEN "handle_error"
    ELSE IF s.search_query # <<>> THEN "get_content"
    ELSE IF s.initial_analysis.intent = "casual" THEN "casual_chat"
    ELSE "synthesize_answer"

\* a router that tests for casual chat before it looks at search_query
route_after_analysis_casual_first(s) ==
    IF Truthy(s.error_message) \/ s.initial_analysis.intent = None THEN "handle_error"
    ELSE IF \/ s.initial_analysis.intent = "casual"
            \/ (s.initial_analysis.intent = "emotional" /\ ~s.initial_analysis.requires_tool)
         THEN "casual_chat"
    ELSE IF s.search_query # <<>> THEN "search_notes"
    ELSE "synthesize_answer"

route_after_analysis(s) ==
    IF Truthy(s.error_message) THEN "handle_error"
    ELSE IF s.initial_analysis.intent = None THEN "handle_error"
    ELSE IF s.search_query # <<>> THEN "search_notes"
    ELSE IF \/ s.initial_analysis.intent = "casual"
            \/ (s.initial_analysis.intent = "emotional" /\ ~s.initial_analysis.requires_tool)
         THEN "casual_chat"
    ELSE IF s.initial_analysis.requires_tool THEN "synthesize_answer"
    ELSE "synthesize_answer"

route_after_search(s) ==
    IF Truthy(s.error_message) THEN "handle_error"
    ELSE IF s.item_id_to_fetch # NoId /\ s.item_type_to_fetch # None THEN "get_content"
    ELSE "synthesize_answer"

\* the router without the fetch cap
route_after_get_content_no_cap(s) ==
    IF Truthy(s.error_message)
    THEN IF DOMAIN s.fetched_content_map = {} THEN "handle_error" ELSE "synthesize_answer"
    ELSE IF PickNext(ResultsOf(s), MIN_RELEVANCE_ROUTE, s.fetched_content_map) # NoItem
         THEN "get_content"
    ELSE "synthesize_answer"

\* the router with the floor of get_content (0.01) in place of its own (0.1)
route_after_get_content_low_floor(s) ==
    IF Truthy(s.error_message)
    THEN IF DOMAIN s.fetched_content_map = {} THEN "handle_error" ELSE "synthesize_answer"
    ELSE IF Cardinality(DOMAIN s.fetched_content_map) >= MAX_ITEMS_TO_FETCH
         THEN "synthesize_answer"
    ELSE IF PickNext(ResultsOf(s), MIN_RELEVANCE_GET_CONTENT, s.fetched_content_map) # NoItem
         THEN "get_content"
    ELSE "synthesize_answer"

route_after_get_content(s) ==
    IF Truthy(s.error_message)
    THEN IF DOMAIN s.fetched_content_map = {} THEN "handle_error" ELSE "synthesize_answer"
    ELSE IF Cardinality(DOMAIN s.fetched_content_map) >= MAX_ITEMS_TO_FETCH
         THEN "synthesize_answer"
    ELSE IF PickNext(ResultsOf(s), MIN_RELEVANCE_ROUTE, s.fetched_content_map) # NoItem
         THEN "get_content"
    ELSE "synthesize_answer"

-----------------------------------------------------------------------------
(* analyze_input *)

LoopText == "I seem to be stuck in a loop. Could you please rephrase your request?"
AnalysisErrorText == "Error during input analysis: <exception>"

\* agent/nodes_initial.py analyze_input_node: search_query of the modular node
ModularSearchQuery(text, a) ==
    IF extract_target_title_from_get_request(text) # <<>>
    THEN extract_target_title_from_get_request(text)
    ELSE IF a.intent \in {"query_notes", "search_request"} /\ a.keywords # <<>> THEN text
    ELSE IF a.requires_tool /\ a.keywords # <<>> THEN a.keywords
    ELSE <<>>

ModularIntent(text, a) ==
    IF extract_target_title_from_get_request(text) # <<>> THEN "action" ELSE a.intent

\* chat_agent.py _analyze_input_node: search_query of the inlined node
InlineSearchQuery(text, a) ==
    IF a.intent \in {"query_notes", "search_request"} /\ a.keywords # <<>> THEN text
    ELSE IF a.intent = "action" /\ "get_noteapp_content" \in Range(a.required_tools)
         THEN IF SearchTitle(text, InlineTitleMarkers) # <<>>
              THEN SearchTitle(text, InlineTitleMarkers)
              ELSE IF a.keywords # <<>> THEN a.keywords ELSE text
    ELSE IF a.requires_tool /\ a.keywords # <<>> THEN a.keywords
    ELSE <<>>

\* analyze_input is a pure function of the utterance apart from the counter:
\* what the analyzer and the search_query rules give for each utterance
AnalysisOf == [text \in Utterances |-> analyze(text)] @@ <<>>

SearchQueryOf ==
    [im \in Impls |->
        [text \in Utterances |->
            IF im = "modular" THEN ModularSearchQuery(text, analyze(text))
            ELSE InlineSearchQuery(text, analyze(text))] @@ <<>>] @@ <<>>

IntentOf ==
    [im \in Impls |->
        [text \in Utterances |->
            IF im = "modular" THEN ModularIntent(text, analyze(text))
            ELSE analyze(text).intent] @@ <<>>] @@ <<>>

\* the node's return value once iteration_count has been computed
analyze_input_update(s, im, throws, iteration_count) ==
    LET a == AnalysisOf[s.user_input]
    IN IF iteration_count > MAX_ITERATIONS
       THEN [error_message |-> LoopText, iteration_count |-> iteration_count]
       ELSE IF throws
       THEN [error_message |-> AnalysisErrorText, iteration_count |-> iteration_count]
       ELSE [initial_analysis |-> [a EXCEPT !.intent = IntentOf[im][s.user_input]],
             iteration_count |-> iteration_count,
             search_query |-> SearchQueryOf[im][s.user_input]]

\* the node without the increment of the counter
analyze_input_node_no_increment(s, im, throws) ==
    analyze_input_update(s, im, throws, s.iteration_count)

\* may the try block of analyze_input raise: for an empty message the analyzer
\* returns constants before any of its parts is called
AnalyzerOutcomes(text) == {FALSE} \cup (IF text = <<>> THEN {} ELSE {TRUE})

\* a node that writes a cleaned-up utterance back into user_input
analyze_input_node_rewrites_input(s, im, throws) ==
    [user_input |-> Dedup(s.user_input)]
        @@ analyze_input_update(s, im, throws, s.iteration_count + 1)

\* throws: the Message Analyzer raised
analyze_input_node(s, im, throws) ==
    analyze_input_update(s, im, throws, s.iteration_count + 1)

-----------------------------------------------------------------------------
(* search_notes *)

RECURSIVE FormatItems(_)
FormatItems(items) ==
    IF items = <<>> THEN <<>>
    ELSE <<ItemLine(Capitalize(Head(items).type), Head(items).id, Head(items).title,
                    FormatRelevance(Head(items).relevance))>>
         \o FormatItems(Tail(items))

NoQueryText == "No search query was provided for searching notes."
SearchErrorText == "Error while searching notes: <exception>"

\* tools/noteapp_tools.py SearchNoteAppTool._run: the text returned to the node
SearchToolOutput(items, outcome) ==
    IF outcome = "transport_error"
    THEN <<TextLine("Error searching notes and transcripts: <exception>")>>
    ELSE IF items = <<>> THEN <<TextLine("No matching notes or transcripts found.")>>
    ELSE <<TextLine("Here are the relevant items I found:")>> \o FormatItems(items)
         \o <<TextLine("To view the full content of an item, use the get_noteapp_content tool")>>

\* the node after search_tool.run returned tool_output
search_notes_success(s, tool_output) ==
    LET parsed_results == parse_search_output(tool_output)
        pick == PickNext(parsed_results, MIN_RELEVANCE_SEARCH, s.fetched_content_map)
    IN [messages |-> <<ToolMessage(tool_output, "search_noteapp_0")>>,
        search_results |-> <<parsed_results>>,
        item_id_to_fetch |-> pick.id,
        item_type_to_fetch |-> pick.type,
        error_message |-> None,
        casual_exchange_count |-> 0]

\* an except branch that appends the tool message and forgets error_message
search_notes_failure_no_error(s) ==
    [messages |-> <<ToolMessage(SearchErrorText, "search_noteapp_error_0")>>,
     search_results |-> <<(<<>>)>>,
     item_id_to_fetch |-> NoId,
     item_type_to_fetch |-> None,
     casual_exchange_count |-> 0]

\* the node's except branch
search_notes_failure(s) ==
    [messages |-> <<ToolMessage(SearchErrorText, "search_noteapp_error_0")>>,
     error_message |-> SearchErrorText,
     search_results |-> <<(<<>>)>>,
     item_id_to_fetch |-> NoId,
     item_type_to_fetch |-> None,
     casual_exchange_count |-> 0]

search_notes_no_query(s) == [error_message |-> NoQueryText, casual_exchange_count |-> 0]

-----------------------------------------------------------------------------
(* get_content *)

NoMoreItemsText == "No more relevant items to fetch content for."
FetchErrorText == "Error fetching content: <exception>"

\* variant: the next pick taken in the order of the results, without the sort
get_content_target_unsorted(s) ==
    IF s.item_id_to_fetch = NoId \/ s.item_type_to_fetch = None
    THEN FirstUnfetched(FilterRelevant(ResultsOf(s), MIN_RELEVANCE_GET_CONTENT),
                        s.fetched_content_map)
    ELSE [id |-> s.item_id_to_fetch, type |-> s.item_type_to_fetch]

\* the item get_content works on: the target in the state, else the next pick
get_content_target(s) ==
    IF s.item_id_to_fetch = NoId \/ s.item_type_to_fetch = None
    THEN PickNext(ResultsOf(s), MIN_RELEVANCE_GET_CONTENT, s.fetched_content_map)
    ELSE [id |-> s.item_id_to_fetch, type |-> s.item_type_to_fetch]

\* an early return shaped like the node's except branch
get_content_no_item_as_failure(s) ==
    [error_message |-> NoMoreItemsText, messages |-> <<>>, fetched_content_map |-> EmptyMap]

get_content_no_item(s) == [error_message |-> NoMoreItemsText]

get_content_skip(s) == [item_id_to_fetch |-> NoId, item_type_to_fetch |-> None]

\* tools/noteapp_tools.py GetNoteAppContentTool._run: the text returned
ContentToolOutput(key, title, owner, outcome) ==
    IF outcome = "transport_error"
    THEN [shape |-> "error", type |-> key[1], title |-> "", owner |-> owner]
    ELSE [shape |-> "item", type |-> key[1], title |-> title, owner |-> owner]

\* the update that clears the id of the target and leaves its type
get_content_success_keeps_type(s, key, tool_output) ==
    [messages |-> <<ToolMessage(tool_output, "get_content_<item_id>")>>,
     fetched_content_map |-> [k \in {key} |-> tool_output],
     item_id_to_fetch |-> NoId,
     error_message |-> None]

get_content_success(s, key, tool_output) ==
    [messages |-> <<ToolMessage(tool_output, "get_content_<item_id>")>>,
     fetched_content_map |-> [k \in {key} |-> tool_output],
     item_id_to_fetch |-> NoId,
     item_type_to_fetch |-> None,
     error_message |-> None]

\* the except branch of the modular node (the inlined node has none)
get_content_failure(s) ==
    [error_message |-> FetchErrorText,
     messages |-> <<>>,
     fetched_content_map |-> EmptyMap]

\* get_content_tool.run raised: the modular node catches the exception and
\* returns the failure update; the inlined node has no try around the call, so
\* the exception leaves the node and the graph
get_content_raised(im, s) ==
    IF im = "modular"
    THEN [escapes |-> FALSE, update |-> get_content_failure(s)]
    ELSE [escapes |-> TRUE, update |-> EmptyMap]

-----------------------------------------------------------------------------
(* synthesize_answer, casual_chat, handle_error *)

LlmAnswerText == "<llm answer>"
FoundButEmptyText == "I found some information regarding '<subject>', but I'm having trouble formulating a specific answer."
NothingFoundText == "I'm sorry, I could not find any relevant notes about '<subject>'."
TroubleText == "I'm sorry, I had trouble processing your request about '<subject>'. Please try again."
SynthesisErrorText == "Error during answer synthesis: <exception>"

has_fetched_any_content(s) == DOMAIN s.fetched_content_map # {}

initial_search_had_relevant_results(s) ==
    \E i \in 1..Len(ResultsOf(s)) : ResultsOf(s)[i].relevance >= MIN_RELEVANCE_GET_CONTENT

\* "content of" in user_input_lower or "full text of" in ... (substring tests)
GetContentMarkers ==
    {<<"content", "of">>, <<"full", "text", "of">>, <<"details", "of">>,
     <<"provide", "the", "content", "for">>}

is_get_content_request(text) == \E m \in GetContentMarkers : Occurs(m, text)

\* .strip().lower() of the title in the first line of a fetched text
LowerTitle(title) ==
    CASE title = "Groceries" -> <<"groceries">>
      [] title = "Q3 Plan" -> <<"q3", "plan">>
      [] title = "Old" -> <<"old">>
      [] title = "Zero" -> <<"zero">>
      [] title = "Weak" -> <<"weak">>
      [] title = "Call" -> <<"call">>
      [] title = "bad id" -> <<"bad", "id">>
      [] title = "other type" -> <<"other", "type">>
      [] OTHER -> <<"untitled">>

\* the text after "Content:\n" of a fetched item (never empty here)
BodyText(output) ==
    CASE output.title = "Groceries" -> "<content of Groceries>"
      [] output.title = "Q3 Plan" -> "<content of Q3 Plan>"
      [] OTHER -> "<content of another item>"

\* both are pure functions of the utterance: their values for each utterance
IsGetContentRequest == [text \in Utterances |-> is_get_content_request(text)] @@ <<>>

TargetTitleOf ==
    [text \in Utterances |-> extract_target_title_from_get_request(text)] @@ <<>>

\* the entries of the map whose first line is "Note: <title>" / "Transcript:
\* <title>" with the title asked for
RequestedKeys(s) ==
    IF IsGetContentRequest[s.user_input] /\ TargetTitleOf[s.user_input] # <<>>
    THEN {k \in DOMAIN s.fetched_content_map :
             /\ s.fetched_content_map[k].shape = "item"
             /\ LowerTitle(s.fetched_content_map[k].title) = TargetTitleOf[s.user_input]}
    ELSE {}

\* specifically_requested_content_text: the loop stops at the first entry that
\* matches (the entries of a map here have different titles, "Untitled" apart)
RequestedContent(s) == BodyText(s.fetched_content_map[CHOOSE k \in RequestedKeys(s) : TRUE])

\* a choice that tests for an empty search before it looks at the request
SynthesisBranch_no_results_first(s) ==
    IF ~initial_search_had_relevant_results(s) /\ ~has_fetched_any_content(s) THEN "no_results"
    ELSE IF IsGetContentRequest[s.user_input] /\ RequestedKeys(s) # {} THEN "verbatim"
    ELSE IF IsGetContentRequest[s.user_input] /\ has_fetched_any_content(s)
         THEN "no_exact_match"
    ELSE IF IsGetContentRequest[s.user_input] THEN "nothing_fetched"
    ELSE "default"

\* which of the five system prompts is handed to the model
SynthesisBranch(s) ==
    IF IsGetContentRequest[s.user_input] /\ RequestedKeys(s) # {} THEN "verbatim"
    ELSE IF IsGetContentRequest[s.user_input] /\ has_fetched_any_content(s)
         THEN "no_exact_match"
    ELSE IF IsGetContentRequest[s.user_input] THEN "nothing_fetched"
    ELSE IF ~initial_search_had_relevant_results(s) /\ ~has_fetched_any_content(s)
         THEN "no_results"
    ELSE "default"

\* what llm.ainvoke may do with the prompt: free text of its own, nothing (an
\* empty reply after strip), an exception, or, when told to present a content
\* verbatim, exactly that content
LlmOutcomes(s) ==
    {"text", "empty", "raise"}
    \cup (IF SynthesisBranch(s) = "verbatim" THEN {"verbatim"} ELSE {})

\* llm is what llm.ainvoke did
synthesize_answer_node(s, llm) ==
    IF llm = "raise"
    THEN [messages |-> <<AIMessage(TroubleText)>>,
          final_answer |-> TroubleText,
          error_message |-> SynthesisErrorText]
    ELSE LET answer ==
                 IF llm = "text" THEN LlmAnswerText
                 ELSE IF llm = "verbatim" THEN RequestedContent(s)
                 ELSE IF has_fetched_any_content(s) \/ initial_search_had_relevant_results(s)
                      THEN FoundButEmptyText
                 ELSE NothingFoundText
         IN [messages |-> <<AIMessage(answer)>>,
             final_answer |-> answer,
             error_message |-> None]

TemplateReplyText == "<template reply>"
LlmReplyText == "<llm reply>"
DefaultReplyText == "I'm here to help! How can I assist you?"
CasualFallbackText == "I'm not sure how to respond to that right now, but I'm here to help with your notes!"
CasualErrorText == "Error during casual chat generation: <exception>"

\* conversation/response.py _detect_pattern_type and _get_template_response:
\* is there a template for the pattern type of the message
HasTemplate(text) ==
    \/ text # <<>> /\ text[1] \in {"hey", "hi", "hello", "sup"}
    \/ \E i \in 1..Len(text) :
           text[i] \in {"thanks", "thx", "ty", "bye", "goodbye", "cya", "later",
                        "say", "chat", "talk", "check", "wonder", "think"}

CasualOutcomes(text) ==
    {"llm_text", "llm_empty", "llm_raise"} \cup (IF HasTemplate(text) THEN {"template"} ELSE {})

\* conversation/response.py ResponseGenerator.generate_response
generate_response(text, outcome) ==
    CASE outcome = "template" -> TemplateReplyText
      [] outcome = "llm_text" -> LlmReplyText
      [] outcome = "llm_empty" -> ""
      [] OTHER -> IF HasTemplate(text) THEN TemplateReplyText ELSE DefaultReplyText

\* a node that sets final_answer and appends nothing to the message log
casual_chat_node_no_message(s, outcome, raised) ==
    [final_answer |-> generate_response(s.user_input, outcome),
     casual_exchange_count |-> s.casual_exchange_count + 1]

\* raised: generate_response itself raised; it handles the failures of the
\* model call on its own, so the turns modelled here pass FALSE
casual_chat_node(s, outcome, raised) ==
    IF raised
    THEN [messages |-> <<AIMessage(CasualFallbackText)>>,
          final_answer |-> CasualFallbackText,
          error_message |-> CasualErrorText]
    ELSE [messages |-> <<AIMessage(generate_response(s.user_input, outcome))>>,
          final_answer |-> generate_response(s.user_input, outcome),
          casual_exchange_count |-> s.casual_exchange_count + 1]

UnexpectedErrorText == "An unexpected error occurred. Please try again."

handle_error_node(s) ==
    LET error_msg == IF Truthy(s.error_message) THEN s.error_message ELSE UnexpectedErrorText
    IN [messages |-> <<AIMessage(error_msg)>>, final_answer |-> error_msg]

-----------------------------------------------------------------------------
(* NoteAppChatAgent.invoke *)

GenericFailureText == "I'm sorry, I encountered an issue and couldn't complete your request."
CriticalErrorText == "I encountered a critical error while processing your request."
EscapedExceptionText == "<exception>"

\* chat_history entries become messages; other roles are dropped
RECURSIVE HistoryMessages(_)
HistoryMessages(chat_history) ==
    IF chat_history = <<>> THEN <<>>
    ELSE LET m == Head(chat_history)
         IN (IF m.role = "user" THEN <<HumanMessage(m.content)>>
             ELSE IF m.role = "assistant" THEN <<AIMessage(m.content)>>
             ELSE <<>>) \o HistoryMessages(Tail(chat_history))

initial_graph_state(req) ==
    [messages |-> HistoryMessages(req.chat_history) \o <<HumanMessage(req.user_input)>>,
     user_input |-> req.user_input,
     user_id |-> req.user_id,
     jwt_token |-> req.jwt_token,
     initial_analysis |-> NoAnalysis,
     search_query |-> <<>>,
     search_results |-> <<>>,
     item_id_to_fetch |-> NoId,
     item_type_to_fetch |-> None,
     fetched_content_map |-> EmptyMap,
     final_answer |-> None,
     error_message |-> None,
     iteration_count |-> 0,
     casual_exchange_count |-> 0]

\* the content of the last AIMessage of msgs, None when there is none
LastAIContent(msgs) ==
    IF \E i \in 1..Len(msgs) : msgs[i].role = "ai"
    THEN msgs[CHOOSE i \in 1..Len(msgs) :
                  msgs[i].role = "ai" /\ \A j \in (i + 1)..Len(msgs) : msgs[j].role # "ai"].content
    ELSE None

Get(d, f) == IF f \in DOMAIN d THEN d[f] ELSE None

\* the extraction without its last-resort text
extract_result_no_default(d) ==
    [final_answer |-> Get(d, "final_answer"), error |-> Get(d, "error_message")]

\* the extraction that prefers error_message to final_answer
extract_result_error_first(d) ==
    [final_answer |-> IF Truthy(Get(d, "error_message")) THEN Get(d, "error_message")
                      ELSE IF Truthy(Get(d, "final_answer")) THEN Get(d, "final_answer")
                      ELSE GenericFailureText,
     error |-> Get(d, "error_message")]

\* d is the graph's final output: the state values, or the last node's update
extract_result(d) ==
    LET final == Get(d, "final_answer")
        error_msg == Get(d, "error_message")
        assistant_response ==
            IF ~Truthy(final) /\ ~Truthy(error_msg) /\ "messages" \in DOMAIN d
            THEN (IF LastAIContent(d.messages) # None THEN LastAIContent(d.messages) ELSE final)
            ELSE final
    IN [final_answer |-> IF Truthy(error_msg) /\ ~Truthy(assistant_response) THEN error_msg
                         ELSE IF ~Truthy(assistant_response) THEN GenericFailureText
                         ELSE assistant_response,
        error |-> error_msg]

critical_error_result == [final_answer |-> CriticalErrorText, error |-> EscapedExceptionText]

-----------------------------------------------------------------------------
(* The environment: callers, the notes backend, the thread checkpoints *)

UserId(t) == IF t = 1 THEN "user-1" ELSE "user-2"
Token(t) == IF t = 1 THEN "jwt-1" ELSE "jwt-2"
OwnerOf(token) == CHOOSE t \in Turns : Token(t) = token

NoRequest == [user_input |-> <<>>, chat_history |-> <<>>, user_id |-> None, jwt_token |-> None]

RECURSIVE Exchanges(_)
Exchanges(k) ==
    IF k = 0 THEN <<>>
    ELSE Exchanges(k - 1) \o <<[role |-> "user", content |-> U_HELLO],
                               [role |-> "assistant", content |-> TemplateReplyText]>>

\* k earlier exchanges; a non-empty history also carries an entry of another role
HistoryOf(k) ==
    IF k = 0 THEN <<>> ELSE <<[role |-> "system", content |-> "<system>"]>> \o Exchanges(k)

Requests(t, utterances) ==
    {[user_input |-> u, chat_history |-> HistoryOf(k), user_id |-> UserId(t), jwt_token |-> Token(t)] :
        u \in utterances, k \in 0..MaxHistory}

\* what the backend's search returns for a user (relevance in thousandths)
REPLY_EXAMPLE ==
    <<BackendItem("note", 1, "Q3 Plan", 900), BackendItem("note", 2, "Groceries", 500),
      BackendItem("note", 3, "Old", -200)>>
REPLY_NONE == <<>>
REPLY_FLOORS ==
    <<BackendItem("note", 1, "Zero", -4), BackendItem("transcript", 1, "Weak", 52),
      BackendItem("note", 2, "Groceries", 96)>>
REPLY_TIES ==
    <<BackendItem("note", 2, "Groceries", 504), BackendItem("note", 1, "Q3 Plan", 496),
      BackendItem("transcript", 3, "Call", 500)>>
\* an id that is not a decimal number, a type the parser does not know
REPLY_MALFORMED ==
    <<BackendItem("note", NoId, "bad id", 900), BackendItem("NOTE", 3, "Q3 Plan", 731),
      BackendItem("memo", 2, "other type", 900)>>
REPLY_NEGATIVE == <<BackendItem("note", 1, "Q3 Plan", -200)>>
REPLY_MANY ==
    <<BackendItem("transcript", 1, "Call", 600), BackendItem("note", 1, "Q3 Plan", 900),
      BackendItem("note", 2, "Groceries", 800), BackendItem("note", 3, "Old", 700)>>

Replies ==
    {REPLY_EXAMPLE, REPLY_NONE, REPLY_FLOORS, REPLY_TIES, REPLY_MALFORMED, REPLY_NEGATIVE,
     REPLY_MANY}

\* the title the backend stores for an item of a user
TitleOf(reply, key) ==
    IF \E i \in 1..Len(reply) : <<Lower(Capitalize(reply[i].type)), reply[i].id>> = key
    THEN reply[CHOOSE i \in 1..Len(reply) :
                   <<Lower(Capitalize(reply[i].type)), reply[i].id>> = key].title
    ELSE "Untitled"

\* keys that earlier turns of the thread may have left in fetched_content_map
PriorKeys == {<<"note", 1>>, <<"note", 2>>, <<"note", 3>>, <<"transcript", 1>>}

PriorMaps(t) ==
    {[k \in keys |-> ContentToolOutput(k, "Untitled", t, "ok")] :
        keys \in {ks \in SUBSET PriorKeys : Cardinality(ks) <= MaxPrior}}

\* the thread's checkpoint before the turn: only the channels with a reducer
\* (messages, fetched_content_map) survive the next invoke; a thread that has
\* processed no turn holds no message
Checkpoint(map) ==
    IF DOMAIN map = {} THEN [initial_graph_state(NoRequest) EXCEPT !.messages = <<>>]
    ELSE [initial_graph_state(NoRequest) EXCEPT
             !.messages = <<HumanMessage(U_QUERY), AIMessage(LlmAnswerText)>>,
             !.fetched_content_map = map,
             !.final_answer = LlmAnswerText,
             !.iteration_count = 1]

NoKey == <<None, NoId>>
NoAuth == [jwt_token |-> None, user_id |-> None]
NoResult == [final_answer |-> None, error |-> None]
\* what a step leaves outside the state: the item get_content is fetching, the
\* update the last node returned, the system prompt last handed to the model
NoFrame == [target |-> NoKey, last_update |-> [final_answer |-> None], prompt |-> None]
\* bookkeeping of a thread: nodes run in the current turn, the number of the
\* turn, and how many turns right before it were resolved by casual_chat
NoHist == [analyze_runs |-> 0, node_execs |-> 0, last |-> None, turn |-> 1, casual_before |-> 0]

InitCommon ==
    /\ impl \in Impls
    /\ search_auth = NoAuth
    /\ content_auth = NoAuth
    /\ sent = {}
    /\ fetch_log = [t \in Turns |-> <<>>]
    /\ hist = [t \in Turns |-> NoHist]
    /\ frame = [t \in Turns |-> NoFrame]
    /\ result = [t \in Turns |-> NoResult]

\* one turn at a time: slot 1 runs a turn, slot 2 has no request
Init ==
    /\ InitCommon
    /\ pc = [t \in Turns |-> "idle"]
    /\ request \in {[t \in Turns |-> IF t = 1 THEN r ELSE NoRequest] : r \in Requests(1, Utterances)}
    /\ env \in {[t \in Turns |-> [reply |-> r]] : r \in Replies}
    /\ st \in {[t \in Turns |-> IF t = 1 THEN Checkpoint(m) ELSE Checkpoint(EmptyMap)] :
                  m \in PriorMaps(1)}

-----------------------------------------------------------------------------
(* The steps of a turn *)

Creds(s) == [jwt_token |-> s.jwt_token, user_id |-> s.user_id]

\* bookkeeping: the node that starts to run is counted
Ran(h, node) ==
    [h EXCEPT !.analyze_runs = @ + (IF node = "analyze_input" THEN 1 ELSE 0),
              !.node_execs = @ + 1,
              !.last = node]

\* the edges of the graph: conditional after analyze_input, search_notes and
\* get_content, to END after the three terminal nodes
Edge(node, s) ==
    CASE node = "analyze_input" -> route_after_analysis(s)
      [] node = "search_notes" -> route_after_search(s)
      [] node = "get_content" -> route_after_get_content(s)
      [] OTHER -> "END"

\* the node's update is merged into the state and the edge out of the node is taken
NodeStep(t, node, update) ==
    /\ st' = [st EXCEPT ![t] = ApplyUpdate(@, update)]
    /\ frame' = [frame EXCEPT ![t] =
                     [target |-> NoKey,
                      last_update |-> update,
                      prompt |-> IF node = "synthesize_answer" THEN SynthesisBranch(st[t])
                                 ELSE frame[t].prompt]]
    /\ pc' = [pc EXCEPT ![t] = Edge(node, st'[t])]


Invoke(t) ==
    /\ pc[t] = "idle"
    /\ request[t].user_id # None
    /\ st' = [st EXCEPT ![t] = ApplyUpdate(@, initial_graph_state(request[t]))]
    /\ pc' = [pc EXCEPT ![t] = "analyze_input"]
    /\ UNCHANGED <<impl, request, env, search_auth, content_auth, sent, fetch_log, hist, frame, result>>

AnalyzeInput(t) ==
    /\ pc[t] = "analyze_input"
    /\ \E throws \in AnalyzerOutcomes(st[t].user_input) :
           NodeStep(t, "analyze_input", analyze_input_node(st[t], impl, throws))
    /\ hist' = [hist EXCEPT ![t] = Ran(@, "analyze_input")]
    /\ UNCHANGED <<impl, request, env, search_auth, content_auth, sent, fetch_log, result>>

\* search_notes up to and including search_tool.set_auth(...)
SearchNotesSetAuth(t) ==
    /\ pc[t] = "search_notes"
    /\ hist' = [hist EXCEPT ![t] = Ran(@, "search_notes")]
    /\ IF st[t].search_query = <<>>
       THEN /\ NodeStep(t, "search_notes", search_notes_no_query(st[t]))
            /\ UNCHANGED search_auth
       ELSE /\ search_auth' = Creds(st[t])
            /\ pc' = [pc EXCEPT ![t] = "search_notes_run"]
            /\ UNCHANGED <<st, frame>>
    /\ UNCHANGED <<impl, request, env, content_auth, sent, fetch_log, result>>

\* search_tool.run(search_query) and the rest of search_notes
SearchNotesRun(t) ==
    /\ pc[t] = "search_notes_run"
    /\ \E outcome \in {"ok", "transport_error", "raise"} :
           IF outcome = "raise"
           THEN /\ NodeStep(t, "search_notes", search_notes_failure(st[t]))
                /\ UNCHANGED sent
           ELSE /\ NodeStep(t, "search_notes", search_notes_success(st[t],
                        SearchToolOutput(env[OwnerOf(search_auth.jwt_token)].reply, outcome)))
                /\ sent' = sent \cup {[by |-> t, tool |-> "search_noteapp",
                                       jwt_token |-> search_auth.jwt_token,
                                       user_id |-> search_auth.user_id]}
    /\ UNCHANGED <<impl, request, env, search_auth, content_auth, fetch_log, hist, result>>

\* get_content up to and including get_content_tool.set_auth(...)
GetContentSetAuth(t) ==
    /\ pc[t] = "get_content"
    /\ hist' = [hist EXCEPT ![t] = Ran(@, "get_content")]
    /\ LET target == get_content_target(st[t])
       IN IF target.id = NoId
          THEN /\ NodeStep(t, "get_content", get_content_no_item(st[t]))
               /\ UNCHANGED content_auth
          ELSE IF Key(target) \in DOMAIN st[t].fetched_content_map
          THEN /\ NodeStep(t, "get_content", get_content_skip(st[t]))
               /\ UNCHANGED content_auth
          ELSE /\ content_auth' = Creds(st[t])
               /\ frame' = [frame EXCEPT ![t].target = Key(target)]
               /\ pc' = [pc EXCEPT ![t] = "get_content_run"]
               /\ UNCHANGED st
    /\ UNCHANGED <<impl, request, env, search_auth, sent, fetch_log, result>>

\* get_content_tool.run(...) and the rest of get_content
GetContentRun(t) ==
    /\ pc[t] = "get_content_run"
    /\ \E outcome \in {"ok", "transport_error", "raise"} :
         LET key == frame[t].target
             owner == OwnerOf(content_auth.jwt_token)
         IN /\ fetch_log' = [fetch_log EXCEPT ![t] = Append(@, [key |-> key, outcome |-> outcome])]
            /\ IF outcome = "raise"
               THEN /\ IF get_content_raised(impl, st[t]).escapes
                       THEN /\ pc' = [pc EXCEPT ![t] = "EXC"]
                            /\ UNCHANGED <<st, frame>>
                       ELSE NodeStep(t, "get_content", get_content_raised(impl, st[t]).update)
                    /\ UNCHANGED sent
               ELSE /\ NodeStep(t, "get_content", get_content_success(st[t], key,
                            ContentToolOutput(key, TitleOf(env[owner].reply, key), owner, outcome)))
                    /\ sent' = sent \cup {[by |-> t, tool |-> "get_noteapp_content",
                                           jwt_token |-> content_auth.jwt_token,
                                           user_id |-> content_auth.user_id]}
    /\ UNCHANGED <<impl, request, env, search_auth, content_auth, hist, result>>

SynthesizeAnswer(t) ==
    /\ pc[t] = "synthesize_answer"
    /\ \E llm \in LlmOutcomes(st[t]) :
           NodeStep(t, "synthesize_answer", synthesize_answer_node(st[t], llm))
    /\ hist' = [hist EXCEPT ![t] = Ran(@, "synthesize_answer")]
    /\ UNCHANGED <<impl, request, env, search_auth, content_auth, sent, fetch_log, result>>

CasualChat(t) ==
    /\ pc[t] = "casual_chat"
    /\ \E outcome \in CasualOutcomes(st[t].user_input) :
           NodeStep(t, "casual_chat", casual_chat_node(st[t], outcome, FALSE))
    /\ hist' = [hist EXCEPT ![t] = Ran(@, "casual_chat")]
    /\ UNCHANGED <<impl, request, env, search_auth, content_auth, sent, fetch_log, result>>

HandleError(t) ==
    /\ pc[t] = "handle_error"
    /\ NodeStep(t, "handle_error", handle_error_node(st[t]))
    /\ hist' = [hist EXCEPT ![t] = Ran(@, "handle_error")]
    /\ UNCHANGED <<impl, request, env, search_auth, content_auth, sent, fetch_log, result>>

\* the graph ended: invoke reads the answer out of the final output, which is
\* the state's values or the update of the last node, depending on the stream
InvokeReturn(t) ==
    /\ pc[t] = "END"
    /\ \E shape \in {"values", "update"} :
           result' = [result EXCEPT ![t] =
                         extract_result(IF shape = "values" THEN st[t] ELSE frame[t].last_update)]
    /\ pc' = [pc EXCEPT ![t] = "returned"]
    /\ UNCHANGED <<impl, request, env, st, search_auth, content_auth, sent, fetch_log, hist, frame>>

\* an exception left the graph: the except clause of invoke
InvokeCatch(t) ==
    /\ pc[t] = "EXC"
    /\ result' = [result EXCEPT ![t] = critical_error_result]
    /\ pc' = [pc EXCEPT ![t] = "returned"]
    /\ UNCHANGED <<impl, request, env, st, search_auth, content_auth, sent, fetch_log, hist, frame>>

Next ==
    \E t \in Turns :
        \/ Invoke(t)
        \/ AnalyzeInput(t)
        \/ SearchNotesSetAuth(t)
        \/ SearchNotesRun(t)
        \/ GetContentSetAuth(t)
        \/ GetContentRun(t)
        \/ SynthesizeAnswer(t)
        \/ CasualChat(t)
        \/ HandleError(t)
        \/ InvokeReturn(t)
        \/ InvokeCatch(t)

Spec == Init /\ [][Next]_vars

\* the event loop runs every node that is ready and invoke always resumes
FairSpec == Spec /\ WF_vars(Next)

\* analyze_input as a function of the state it is entered with: the counter is
\* drawn from 0 .. ceiling + 1 instead of being the 0 that invoke seeds
InitGuard ==
    /\ InitCommon
    /\ pc = [t \in Turns |-> IF t = 1 THEN "analyze_input" ELSE "idle"]
    /\ request \in {[t \in Turns |-> IF t = 1 THEN r ELSE NoRequest] : r \in Requests(1, Utterances)}
    /\ env \in {[t \in Turns |-> [reply |-> r]] : r \in {REPLY_EXAMPLE, REPLY_NONE}}
    /\ st \in {[t \in Turns |->
                    IF t = 1
                    THEN [initial_graph_state(request[1]) EXCEPT !.iteration_count = n]
                    ELSE Checkpoint(EmptyMap)] :
                  n \in 0..(MAX_ITERATIONS + 1)}

NextGuard ==
    \E t \in Turns :
        \/ AnalyzeInput(t)
        \/ SearchNotesSetAuth(t)
        \/ SearchNotesRun(t)
        \/ GetContentSetAuth(t)
        \/ GetContentRun(t)
        \/ SynthesizeAnswer(t)
        \/ CasualChat(t)
        \/ HandleError(t)
        \/ InvokeReturn(t)
        \/ InvokeCatch(t)

SpecGuard == InitGuard /\ [][NextGuard]_vars

\* two callers with different credentials, their turns running concurrently
\* against the one agent and its two tool adapters
InitConc ==
    /\ InitCommon
    /\ pc = [t \in Turns |-> "idle"]
    /\ request \in {[t \in Turns |->
                         [user_input |-> IF t = 1 THEN u ELSE U_QUERY, chat_history |-> <<>>,
                          user_id |-> UserId(t), jwt_token |-> Token(t)]] :
                       u \in {U_QUERY, U_HELLO}}
    /\ env = [t \in Turns |-> [reply |-> IF t = 1 THEN REPLY_EXAMPLE ELSE REPLY_NEGATIVE]]
    /\ st = [t \in Turns |-> Checkpoint(EmptyMap)]

SpecConc == InitConc /\ [][Next]_vars

\* what analyze_input may leave in the state for the router: an analysis of any
\* intent with or without a tool requirement, with or without a search_query,
\* with or without error_message, or no analysis at all
RouteIntents == {"casual", "emotional", "query_notes", "action"}

RouteAnalyses ==
    {NoAnalysis}
    \cup {[intent |-> i, confidence |-> 5, keywords |-> <<"budget">>, requires_tool |-> rt,
           required_tools |-> IF rt THEN <<"search_noteapp">> ELSE <<>>] :
             i \in RouteIntents, rt \in BOOLEAN}

AnalysisUpdates ==
    {[initial_analysis |-> a, iteration_count |-> 1, search_query |-> q, error_message |-> e] :
        a \in RouteAnalyses, q \in {<<>>, <<"budget">>}, e \in {None, AnalysisErrorText}}

\* analyze_input returning any of these updates: the router after it as a
\* function of the state it is given
AnalyzeInputAny(t) ==
    /\ pc[t] = "analyze_input"
    /\ \E update \in AnalysisUpdates : NodeStep(t, "analyze_input", update)
    /\ hist' = [hist EXCEPT ![t] = Ran(@, "analyze_input")]
    /\ UNCHANGED <<impl, request, env, search_auth, content_auth, sent, fetch_log, result>>

InitRoute ==
    /\ InitCommon
    /\ pc = [t \in Turns |-> "idle"]
    /\ request \in {[t \in Turns |-> IF t = 1 THEN r ELSE NoRequest] :
                       r \in Requests(1, {U_QUERY, U_HELLO})}
    /\ env \in {[t \in Turns |-> [reply |-> r]] : r \in {REPLY_EXAMPLE, REPLY_NONE}}
    /\ st = [t \in Turns |-> Checkpoint(EmptyMap)]

NextRoute ==
    \E t \in Turns :
        \/ Invoke(t)
        \/ AnalyzeInputAny(t)
        \/ SearchNotesSetAuth(t)
        \/ SearchNotesRun(t)
        \/ GetContentSetAuth(t)
        \/ GetContentRun(t)
        \/ SynthesizeAnswer(t)
        \/ CasualChat(t)
        \/ HandleError(t)
        \/ InvokeReturn(t)
        \/ InvokeCatch(t)

SpecRoute == InitRoute /\ [][NextRoute]_vars

\* lines a tool output may hold, as the node's pattern sees them: the lines of
\* examples/test_search_note_regex.py and the malformed line "- Note (ID: x): bad".
\* has_rel: the line carries "[Relevance: <signed decimal>]"; bracket and tail
\* say what stands in its place and after it
Line(tok, id, title, rel, bracket, tail) ==
    [tok |-> tok, id |-> id, title |-> title, rel |-> rel, has_rel |-> bracket = "number",
     bracket |-> bracket, tail |-> tail]

ParseLines ==
    {Line("Note", 15, "DSPy Planning", 3, "number", "[TITLE MATCH]"),
     Line("Transcript", 42, "Meeting Recap", 85, "number", ""),
     Line("Note", 99, "Something", -12, "number", "[TITLE MATCH]"),
     Line("Note", 123, "   Extra Spaces  ", 99, "number", ""),
     Line("Note", 1, "Edge", 0, "number", ""),
     Line("Note", 3, "Bad Relevance", 0, "not_a_number", ""),
     Line("Note", 4, "Missing Relevance", 0, "missing", ""),
     Line("Something else entirely", NoId, "", 0, "missing", ""),
     Line("Note", NoId, "bad", 0, "missing", ""),
     Line("Note", NoId, "bad id", 50, "number", ""),
     Line("note", 5, "lower case", 50, "number", "")}

ToolOutputs ==
    UNION {[1..n -> ParseLines] : n \in 0..MaxLines}

\* search_notes after search_tool.run returned: the node as a function of the
\* text it is given, which is drawn from ToolOutputs
SearchNotesParse(t) ==
    /\ pc[t] = "search_notes_run"
    /\ \E tool_output \in ToolOutputs :
           NodeStep(t, "search_notes", search_notes_success(st[t], tool_output))
    /\ sent' = sent \cup {[by |-> t, tool |-> "search_noteapp",
                           jwt_token |-> search_auth.jwt_token,
                           user_id |-> search_auth.user_id]}
    /\ UNCHANGED <<impl, request, env, search_auth, content_auth, fetch_log, hist, result>>

InitParse ==
    /\ InitCommon
    /\ pc = [t \in Turns |-> "idle"]
    /\ request \in {[t \in Turns |-> IF t = 1 THEN r ELSE NoRequest] : r \in Requests(1, {U_QUERY})}
    /\ env = [t \in Turns |-> [reply |-> REPLY_NONE]]
    /\ st = [t \in Turns |-> Checkpoint(EmptyMap)]

NextParse ==
    \E t \in Turns :
        \/ Invoke(t)
        \/ AnalyzeInput(t)
        \/ SearchNotesSetAuth(t)
        \/ SearchNotesParse(t)
        \/ GetContentSetAuth(t)
        \/ GetContentRun(t)
        \/ SynthesizeAnswer(t)
        \/ HandleError(t)
        \/ InvokeReturn(t)
        \/ InvokeCatch(t)

SpecParse == InitParse /\ [][NextParse]_vars

-----------------------------------------------------------------------------
(* Properties *)

Done(t) == pc[t] = "returned"

\* the content-fetch calls of the turn that added an entry to fetched_content_map
Successes(t) == {i \in DOMAIN fetch_log[t] : fetch_log[t][i].outcome # "raise"}

LogKeys(t) == {fetch_log[t][i].key : i \in DOMAIN fetch_log[t]}

MapSize(s) == Cardinality(DOMAIN s.fetched_content_map)

(* C1: every call of invoke returns a result whose final_answer is a non-empty
   string, whatever the analyzer, the tools and the language model did; a turn
   whose graph was left by an exception returns the critical-error result. *)
C1_InvokeReturnsAnswer ==
    \A t \in Turns :
        /\ Done(t) => Truthy(result[t].final_answer)
        /\ pc[t] = "EXC" => ENABLED InvokeCatch(t)

\* a turn returned although the graph produced no answer text, or was left by an exception
C1_Witness ==
    \E t \in Turns :
        Done(t) /\ result[t].final_answer \in {GenericFailureText, CriticalErrorText}

(* C2: in a turn at most 2 content-fetch calls add an entry to
   fetched_content_map, however many relevant results the search returned and
   whatever the map held when the turn began. *)
C2_AtMostTwoFetches == \A t \in Turns : Cardinality(Successes(t)) <= 2

\* two fetches were made and relevant results are still unfetched
C2_Witness ==
    \E t \in Turns :
        /\ Cardinality(Successes(t)) = 2
        /\ \E i \in 1..Len(ResultsOf(st[t])) :
               /\ ResultsOf(st[t])[i].relevance >= MIN_RELEVANCE_ROUTE
               /\ Key(ResultsOf(st[t])[i]) \notin DOMAIN st[t].fetched_content_map

(* C3: a content-fetch call is never made for a key the turn already passed to
   the tool, nor for a key that is in fetched_content_map; a call that succeeds
   makes the map one entry larger, a call that fails leaves it as it was. *)
C3_NoKeyFetchedTwice ==
    [][\A t \in Turns :
          fetch_log'[t] # fetch_log[t] =>
              LET call == fetch_log'[t][Len(fetch_log'[t])]
              IN /\ call.key \notin LogKeys(t)
                 /\ call.key \notin DOMAIN st[t].fetched_content_map
                 /\ call.outcome # "raise" => MapSize(st'[t]) = MapSize(st[t]) + 1
                 /\ call.outcome = "raise" => MapSize(st'[t]) = MapSize(st[t])]_vars

\* a fetch was made in a turn whose search returned a key fetched by an earlier turn
C3_Witness ==
    \E t \in Turns :
        /\ Successes(t) # {}
        /\ \E i \in 1..Len(ResultsOf(st[t])) :
               /\ Key(ResultsOf(st[t])[i]) \in DOMAIN st[t].fetched_content_map
               /\ Key(ResultsOf(st[t])[i]) \notin LogKeys(t)
               /\ ResultsOf(st[t])[i].relevance >= MIN_RELEVANCE_ROUTE

\* a terminal node was the last node of the turn
TerminalRan(t) == hist[t].last \in {"casual_chat", "synthesize_answer", "handle_error"}

(* C4 (as claimed): every turn reaches one of the terminal nodes casual_chat,
   synthesize_answer or handle_error, whatever the tools and the model did: a
   turn that has left the graph has run a terminal node. *)
C4_TerminalNodeReached ==
    \A t \in Turns : pc[t] \in {"END", "EXC", "returned"} => TerminalRan(t)

(* C4 (amended): every turn that starts at analyze_input leaves the graph
   after at most 5 node executions, through a terminal node or, with the
   inlined get_content, by the exception of a content-fetch call; get_content
   runs at most twice. *)
C4_TurnEnds ==
    /\ \A t \in Turns : (pc[t] = "analyze_input") ~> (pc[t] \in {"END", "EXC"})
    /\ [](\A t \in Turns :
            /\ hist[t].node_execs <= 5
            /\ Len(fetch_log[t]) <= 2
            /\ pc[t] = "END" => TerminalRan(t)
            /\ pc[t] = "EXC" =>
                   /\ impl = "inline"
                   /\ hist[t].last = "get_content"
                   /\ fetch_log[t][Len(fetch_log[t])].outcome = "raise")

\* a turn that took the get_content self-loop and then ended
C4_Witness ==
    \E t \in Turns : pc[t] = "END" /\ hist[t].node_execs = 5 /\ Len(fetch_log[t]) = 2

(* C5: analyze_input runs at most 5 times in a turn; every run adds exactly one
   to iteration_count, and no later step of the turn lowers it. *)
C5_IterationCount ==
    [][\A t \in Turns :
          /\ hist'[t].analyze_runs <= 5
          /\ hist'[t].analyze_runs # hist[t].analyze_runs =>
                 st'[t].iteration_count = st[t].iteration_count + 1
          /\ pc[t] # "idle" => st'[t].iteration_count >= st[t].iteration_count]_vars

\* a turn in which analyze_input ran and that went on to fetch content
C5_Witness ==
    \E t \in Turns :
        Done(t) /\ hist[t].analyze_runs = 1 /\ st[t].iteration_count = 1 /\ fetch_log[t] # <<>>

(* C6: when analyze_input finds the incremented iteration_count above 5 it
   leaves initial_analysis and search_query unwritten, sets error_message to
   the stuck-in-a-loop text, and the turn ends in handle_error with that text
   as final_answer. *)
C6_LoopGuard ==
    \A t \in Turns :
        (hist[t].analyze_runs > 0 /\ st[t].iteration_count > 5) =>
            /\ st[t].error_message = LoopText
            /\ st[t].initial_analysis = NoAnalysis
            /\ st[t].search_query = <<>>
            /\ pc[t] \in {"handle_error", "END", "returned"}
            /\ pc[t] \in {"END", "returned"} =>
                   hist[t].last = "handle_error" /\ st[t].final_answer = LoopText
            /\ Done(t) => result[t].final_answer = LoopText

\* a turn entered above the ceiling has returned the loop text
C6_Witness ==
    \E t \in Turns :
        Done(t) /\ st[t].iteration_count > 5 /\ result[t].final_answer = LoopText

\* the state right after search_notes returned from a search that did not raise
AfterSearch(t) ==
    /\ hist[t].last = "search_notes"
    /\ pc[t] \in {"get_content", "synthesize_answer", "handle_error"}
    /\ "search_results" \in DOMAIN frame[t].last_update
    /\ frame[t].last_update.error_message = None

\* indexes of the results that qualify as the first fetch target
Qualifying(t) ==
    {i \in 1..Len(ResultsOf(st[t])) :
        /\ ResultsOf(st[t])[i].relevance >= 0
        /\ Key(ResultsOf(st[t])[i]) \notin DOMAIN st[t].fetched_content_map}

(* C7: after a search that succeeded the fetch target is the result of highest
   relevance among those with relevance >= 0.0 whose key is not in
   fetched_content_map, the earliest of them when several share that relevance;
   when no result qualifies the target is unset and the turn goes to
   synthesize_answer with no fetch made. *)
C7_FirstTarget ==
    \A t \in Turns :
        AfterSearch(t) =>
            LET R == ResultsOf(st[t])
            IN IF Qualifying(t) = {}
               THEN /\ st[t].item_id_to_fetch = NoId
                    /\ st[t].item_type_to_fetch = None
                    /\ pc[t] = "synthesize_answer"
                    /\ fetch_log[t] = <<>>
               ELSE /\ pc[t] = "get_content"
                    /\ \E i \in Qualifying(t) :
                           /\ \A j \in Qualifying(t) : R[j].relevance <= R[i].relevance
                           /\ \A j \in Qualifying(t) : j < i => R[j].relevance < R[i].relevance
                           /\ st[t].item_id_to_fetch = R[i].id
                           /\ st[t].item_type_to_fetch = R[i].type

\* several qualifying results share the highest relevance
C7_Witness ==
    \E t \in Turns :
        /\ AfterSearch(t)
        /\ \E i, j \in Qualifying(t) :
               /\ i < j
               /\ ResultsOf(st[t])[i].relevance = ResultsOf(st[t])[j].relevance
               /\ \A k \in Qualifying(t) :
                      ResultsOf(st[t])[k].relevance <= ResultsOf(st[t])[i].relevance

\* the relevance of the search result with this key
RelevanceOf(t, key) ==
    ResultsOf(st[t])[CHOOSE i \in 1..Len(ResultsOf(st[t])) : Key(ResultsOf(st[t])[i]) = key].relevance

FetchedKeys(t) == [i \in DOMAIN fetch_log[t] |-> fetch_log[t][i].key]

(* C8: the items of a turn are fetched in non-increasing order of relevance,
   beginning with the most relevant result not fetched before; no result of
   negative relevance is passed to the content-fetch tool.  For the results
   0.9, 0.5, -0.2 and an empty map the 0.9 item is fetched, then the 0.5 item. *)
C8_FetchOrder ==
    \A t \in Turns :
        /\ \A i \in DOMAIN fetch_log[t] :
               /\ \E k \in 1..Len(ResultsOf(st[t])) : Key(ResultsOf(st[t])[k]) = fetch_log[t][i].key
               /\ RelevanceOf(t, fetch_log[t][i].key) >= 0
               /\ \A j \in DOMAIN fetch_log[t] :
                      i < j => RelevanceOf(t, fetch_log[t][i].key) >= RelevanceOf(t, fetch_log[t][j].key)
               /\ \A k \in 1..Len(ResultsOf(st[t])) :
                      (/\ Key(ResultsOf(st[t])[k]) \notin DOMAIN st[t].fetched_content_map
                       /\ Key(ResultsOf(st[t])[k]) \notin LogKeys(t))
                      => ResultsOf(st[t])[k].relevance <= RelevanceOf(t, fetch_log[t][i].key)
        /\ (env[t].reply = REPLY_EXAMPLE /\ DOMAIN st[t].fetched_content_map \subseteq LogKeys(t)) =>
               /\ FetchedKeys(t) \in {<<>>, <<(<<"note", 1>>)>>, <<(<<"note", 1>>), <<"note", 2>>>>}
               /\ (Done(t) /\ Successes(t) = DOMAIN fetch_log[t] /\ ResultsOf(st[t]) # <<>>) =>
                      FetchedKeys(t) = <<(<<"note", 1>>), <<"note", 2>>>>

\* the example of the claim: both items fetched, the negative one left
C8_Witness ==
    \E t \in Turns :
        /\ Done(t)
        /\ env[t].reply = REPLY_EXAMPLE
        /\ FetchedKeys(t) = <<(<<"note", 1>>), <<"note", 2>>>>
        /\ DOMAIN st[t].fetched_content_map = LogKeys(t)

(* C9: whenever a terminal node (casual_chat, synthesize_answer, handle_error)
   has run, final_answer of the turn state is a non-empty string, also when the
   language model returned an empty reply or a node failed. *)
C9_FinalAnswerNonEmpty ==
    \A t \in Turns :
        (TerminalRan(t) /\ pc[t] \in {"END", "returned"}) => Truthy(st[t].final_answer)

(* C10: with turns of different credentials running concurrently on the shared
   tool adapters, every search request and every content-fetch request carries
   the jwt_token and user_id of the turn that issued it. *)
C10_OwnCredentials ==
    \A r \in sent : r.jwt_token = Token(r.by) /\ r.user_id = UserId(r.by)

\* the turn state as the first node of the turn sees it
AtTurnStart(t) == pc[t] = "analyze_input" /\ hist[t].node_execs = 0

(* C11: at the start of every invoke the turn state is fresh: the map of
   fetched content is empty, search_results and the fetch target are unset and
   the message log is the caller's history followed by the new utterance,
   whatever earlier turns of the same thread left in the checkpoint. *)
C11_FreshTurnState ==
    \A t \in Turns :
        AtTurnStart(t) =>
            /\ st[t].fetched_content_map = EmptyMap
            /\ st[t].search_results = <<>>
            /\ st[t].item_id_to_fetch = NoId
            /\ st[t].item_type_to_fetch = None
            /\ st[t].messages =
                   HistoryMessages(request[t].chat_history) \o <<HumanMessage(request[t].user_input)>>

\* the texts into which a node formats str(e) of the exception it caught
ExceptionTexts ==
    {AnalysisErrorText, SearchErrorText, FetchErrorText, SynthesisErrorText, CasualErrorText,
     EscapedExceptionText}

(* C12: on every failure (the analyzer, the search tool, the content-fetch tool
   or the language model raised) the final_answer that invoke returns is a
   fixed apology or clarification request and never carries the text of the
   exception that was raised. *)
C12_NoExceptionTextInAnswer ==
    \A t \in Turns : Done(t) => result[t].final_answer \notin ExceptionTexts

(* C13: fetched_content_map never shrinks: across every step (a node's update,
   the error update of get_content that carries an empty map, a new invoke on
   the thread) each key of the map stays in it with the text it had. *)
C13_MapNeverShrinks ==
    [][\A t \in Turns :
          \A k \in DOMAIN st[t].fetched_content_map :
              /\ k \in DOMAIN st'[t].fetched_content_map
              /\ st'[t].fetched_content_map[k] = st[t].fetched_content_map[k]]_vars

\* a content-fetch call raised in a turn whose map held entries of an earlier
\* turn, and get_content returned its error update with the empty map
C13_Witness ==
    \E t \in Turns :
        /\ fetch_log[t] # <<>>
        /\ fetch_log[t][Len(fetch_log[t])].outcome = "raise"
        /\ "fetched_content_map" \in DOMAIN frame[t].last_update
        /\ frame[t].last_update.fetched_content_map = EmptyMap
        /\ DOMAIN st[t].fetched_content_map # {}

(* C14: in every reachable turn state item_id_to_fetch and item_type_to_fetch
   are both set or both unset. *)
C14_TargetBothOrNeither ==
    \A t \in Turns : (st[t].item_id_to_fetch = NoId) <=> (st[t].item_type_to_fetch = None)

\* search_notes set a target, get_content fetched it and cleared it, and the
\* turn is about to fetch a second item
C14_Witness ==
    \E t \in Turns :
        /\ pc[t] = "get_content"
        /\ Len(fetch_log[t]) = 1
        /\ fetch_log[t][1].key \in DOMAIN st[t].fetched_content_map
        /\ st[t].item_id_to_fetch = NoId
        /\ st[t].item_type_to_fetch = None

\* what the three-step preference gives for the state the graph ended in
PreferredAnswer(s) ==
    IF Truthy(s.final_answer) THEN s.final_answer
    ELSE IF Truthy(LastAIContent(s.messages)) THEN LastAIContent(s.messages)
    ELSE GenericFailureText

(* C15 (as claimed): the final_answer returned by invoke is the final_answer of
   the state the turn ended in when that is non-empty, otherwise the content of
   the last assistant message of the message log, otherwise the generic
   "couldn't complete your request" text. *)
C15_ReturnedAnswer ==
    \A t \in Turns : Done(t) => result[t].final_answer = PreferredAnswer(st[t])

(* C15 (amended): when the graph ran to its end, invoke returns the final_answer
   of the final state when that is non-empty, otherwise the content of the last
   assistant message of the log, otherwise the generic text; when an exception
   left the graph it returns the critical-error text instead, whatever the
   state and the log hold. *)
C15_ReturnedAnswerOrCritical ==
    \A t \in Turns :
        Done(t) =>
            IF TerminalRan(t)
            THEN result[t].final_answer = PreferredAnswer(st[t])
            ELSE result[t] = critical_error_result

\* the turn ended with an empty final_answer and an empty last assistant
\* message while older assistant messages of the log have text: the generic text
C15_Witness ==
    \E t \in Turns :
        /\ Done(t)
        /\ TerminalRan(t)
        /\ st[t].final_answer = ""
        /\ \E i \in 1..Len(st[t].messages) :
               st[t].messages[i].role = "ai" /\ Truthy(st[t].messages[i].content)
        /\ result[t].final_answer = GenericFailureText

\* the node a position of a turn lies in
NodeOf(p) ==
    CASE p = "search_notes_run" -> "search_notes"
      [] p = "get_content_run" -> "get_content"
      [] OTHER -> p

TerminalNodes == {"casual_chat", "synthesize_answer", "handle_error"}
GraphNodes == {"analyze_input", "search_notes", "get_content"} \cup TerminalNodes

\* the successors the claim allows for a node
Successors(node) ==
    CASE node = "analyze_input" ->
           {"search_notes", "create_note", "casual_chat", "synthesize_answer", "handle_error"}
      [] node = "search_notes" -> {"get_content", "synthesize_answer", "handle_error"}
      [] node = "get_content" -> {"get_content", "synthesize_answer", "handle_error"}
      [] OTHER -> {}

(* C16: every node-to-node transition of a turn lies in the relation
   analyze_input -> {search_notes, create_note, casual_chat, synthesize_answer,
   handle_error}, search_notes -> {get_content, synthesize_answer,
   handle_error}, get_content -> {get_content, synthesize_answer,
   handle_error}; the turn starts at analyze_input; casual_chat,
   synthesize_answer and handle_error have no successor; get_content does not
   run before search_notes has completed in the turn. *)
C16_TransitionRelation ==
    [][\A t \in Turns :
          /\ pc[t] = "idle" => pc'[t] \in {"idle", "analyze_input"}
          /\ pc'[t] = "analyze_input" => pc[t] \in {"idle", "analyze_input"}
          /\ (pc'[t] \in GraphNodes /\ NodeOf(pc[t]) \in GraphNodes
                /\ (pc'[t] # pc[t] \/ hist'[t] # hist[t])) =>
                 pc'[t] \in Successors(NodeOf(pc[t]))
          /\ pc[t] \in TerminalNodes => pc'[t] \in {pc[t], "END"}
          /\ pc'[t] = "get_content" =>
                 /\ st'[t].search_results # <<>>
                 /\ \E r \in sent' : r.by = t /\ r.tool = "search_noteapp"]_vars

\* a turn on the self-loop of get_content
C16_Witness ==
    \E t \in Turns :
        /\ pc[t] = "get_content"
        /\ hist[t].last = "get_content"
        /\ hist[t].node_execs = 3

\* synthesize_answer ended a get-content turn whose map holds the entry asked for
VerbatimCase(t) ==
    /\ hist[t].last = "synthesize_answer"
    /\ pc[t] \in {"END", "returned"}
    /\ IsGetContentRequest[st[t].user_input]
    /\ RequestedKeys(st[t]) # {}

(* C17: for a get-content utterance ("give me the full text of the Groceries
   note") and a fetched entry whose title equals the requested title,
   synthesize_answer takes the verbatim branch and final_answer is the stored
   body text, unmodified and with no commentary before or after it. *)
C17_VerbatimAnswer ==
    \A t \in Turns :
        VerbatimCase(t) =>
            /\ SynthesisBranch(st[t]) = "verbatim"
            /\ st[t].final_answer = RequestedContent(st[t])

\* the grammar of the claim: "- <Note|Transcript> (ID: <int>): <title>
\* [Relevance: <signed float>]", whatever follows the bracket
InGrammar(line) ==
    /\ line.tok = "Note" \/ line.tok = "Transcript"
    /\ line.id \in Nat
    /\ line.bracket = "number"

\* the index of the k-th line of the output that is in the grammar
KthInGrammar(lines, k) ==
    CHOOSE i \in 1..Len(lines) :
        InGrammar(lines[i]) /\ Cardinality({j \in 1..(i - 1) : InGrammar(lines[j])}) = k - 1

\* the outputs of the search tool that the turn's search_notes was given
SearchOutputs(t) ==
    {st[t].messages[i].content :
        i \in {j \in 1..Len(st[t].messages) :
                  /\ st[t].messages[j].role = "tool"
                  /\ st[t].messages[j].tool_call_id = "search_noteapp_0"}}

(* C18: parsing the search tool's output gives exactly one search_results entry
   for each line in the grammar "- <Note|Transcript> (ID: <int>): <title>
   [Relevance: <signed float>]" (with or without [TITLE MATCH] after it), in
   line order, with the id as an integer, the type in lower case, the title
   trimmed and the relevance as written; every other line (an id that is not a
   number, a relevance that is missing or not a number, other text) gives no
   entry and raises nothing. *)
C18_ParsedResults ==
    \A t \in Turns :
        \A lines \in SearchOutputs(t) :
            LET results == ResultsOf(st[t])
            IN /\ st[t].search_results # <<>>
               /\ st[t].error_message # SearchErrorText
               /\ Len(results) = Cardinality({i \in 1..Len(lines) : InGrammar(lines[i])})
               /\ \A k \in 1..Len(results) :
                      LET line == lines[KthInGrammar(lines, k)]
                      IN /\ results[k].id = line.id
                         /\ results[k].type \in {"note", "transcript"}
                         /\ results[k].type = (IF line.tok = "Note" THEN "note" ELSE "transcript")
                         /\ results[k].title \notin PaddedTitles
                         /\ results[k].title = Trim(line.title)
                         /\ results[k].relevance = line.rel

\* an output whose padded-title line was parsed and whose other line, of
\* non-numeric relevance, was skipped
C18_Witness ==
    \E t \in Turns :
        \E lines \in SearchOutputs(t) :
            /\ Len(lines) = 2
            /\ lines[1].bracket = "not_a_number"
            /\ lines[2].title \in PaddedTitles
            /\ Len(ResultsOf(st[t])) = 1
            /\ ResultsOf(st[t])[1].title = "Extra Spaces"

\* the analysis the claim gives for an empty message
EmptyMessageAnalysis ==
    [intent |-> "casual", confidence |-> 0, keywords |-> <<>>, requires_tool |-> FALSE,
     required_tools |-> <<>>]

(* C19: for an empty or whitespace-only utterance the Message Analyzer returns
   intent casual, confidence 0, no keywords and requires_tool false and raises
   nothing, so analyze_input forms no search_query and the turn is resolved by
   casual_chat with no tool invoked. *)
C19_EmptyUtterance ==
    \A t \in Turns :
        (st[t].user_input = U_EMPTY /\ hist[t].analyze_runs > 0) =>
            /\ st[t].initial_analysis = EmptyMessageAnalysis
            /\ st[t].search_query = <<>>
            /\ st[t].error_message = None
            /\ pc[t] \in {"casual_chat", "END", "returned"}
            /\ pc[t] \in {"END", "returned"} => hist[t].last = "casual_chat"
            /\ hist[t].node_execs <= 2
            /\ fetch_log[t] = <<>>
            /\ \A r \in sent : r.by # t
            /\ search_auth = NoAuth /\ content_auth = NoAuth

\* the turn of an empty utterance returned the reply casual_chat obtained
C19_Witness ==
    \E t \in Turns :
        /\ Done(t)
        /\ request[t].user_input = U_EMPTY
        /\ hist[t].last = "casual_chat"
        /\ result[t].final_answer = LlmReplyText

\* the turn has just been routed out of analyze_input
AfterAnalysis(t) == hist[t].last = "analyze_input" /\ pc[t] # "analyze_input"

RouteFailed(s) == Truthy(s.error_message) \/ s.initial_analysis = NoAnalysis

RouteCasual(s) ==
    \/ s.initial_analysis.intent = "casual"
    \/ s.initial_analysis.intent = "emotional" /\ ~s.initial_analysis.requires_tool

(* C20: the node after analyze_input is, in this priority: handle_error when
   error_message is set or no analysis was produced; else search_notes when
   search_query is not empty, whatever the intent; else casual_chat when the
   intent is casual, or emotional with no tool required; else
   synthesize_answer. *)
C20_RouteAfterAnalysis ==
    \A t \in Turns :
        AfterAnalysis(t) =>
            /\ pc[t] \in {"handle_error", "search_notes", "casual_chat", "synthesize_answer"}
            /\ pc[t] = "handle_error" <=> RouteFailed(st[t])
            /\ pc[t] = "search_notes" <=> (~RouteFailed(st[t]) /\ st[t].search_query # <<>>)
            /\ pc[t] = "casual_chat" <=>
                   (~RouteFailed(st[t]) /\ st[t].search_query = <<>> /\ RouteCasual(st[t]))
            /\ pc[t] = "synthesize_answer" <=>
                   (~RouteFailed(st[t]) /\ st[t].search_query = <<>> /\ ~RouteCasual(st[t]))

\* a search_query was formed for a casual intent and the turn went to search_notes
C20_Witness ==
    \E t \in Turns :
        /\ AfterAnalysis(t)
        /\ st[t].initial_analysis.intent = "casual"
        /\ st[t].search_query # <<>>
        /\ pc[t] = "search_notes"

-----------------------------------------------------------------------------
(* Routing after get_content *)

\* get_content has just returned an update and the turn has been routed on
AfterGetContent(t) ==
    /\ hist[t].last = "get_content"
    /\ pc[t] \in {"get_content", "synthesize_answer", "handle_error"}

\* indexes of the search results the router would still have fetched: relevance
\* of 0.1 or more (hundredths) and a key that is not in fetched_content_map
Refetchable(t) ==
    {i \in 1..Len(ResultsOf(st[t])) :
        /\ ResultsOf(st[t])[i].relevance >= 10
        /\ Key(ResultsOf(st[t])[i]) \notin DOMAIN st[t].fetched_content_map}

(* C21: after a get_content that left no error_message the turn goes to
   synthesize_answer when fetched_content_map holds 2 or more entries;
   otherwise it goes back to get_content exactly when some search result of
   relevance >= 0.1 has a key that is not in fetched_content_map, and to
   synthesize_answer when there is none. *)
C21_RouteAfterGetContent ==
    \A t \in Turns :
        (AfterGetContent(t) /\ ~Truthy(st[t].error_message)) =>
            IF MapSize(st[t]) >= 2
            THEN pc[t] = "synthesize_answer"
            ELSE /\ pc[t] \in {"get_content", "synthesize_answer"}
                 /\ pc[t] = "get_content" <=> Refetchable(t) # {}

\* one item is in the map and the only result left unfetched lies between
\* get_content's floor (0.01) and the router's (0.1): the turn does not loop
C21_Witness ==
    \E t \in Turns :
        /\ AfterGetContent(t)
        /\ ~Truthy(st[t].error_message)
        /\ MapSize(st[t]) = 1
        /\ pc[t] = "synthesize_answer"
        /\ \E i \in 1..Len(ResultsOf(st[t])) :
               /\ ResultsOf(st[t])[i].relevance \in 1..9
               /\ Key(ResultsOf(st[t])[i]) \notin DOMAIN st[t].fetched_content_map

\* a fetch of this turn raised after an earlier fetch of the turn had succeeded
FailedAfterPartialSuccess(t) ==
    /\ fetch_log[t] # <<>>
    /\ fetch_log[t][Len(fetch_log[t])].outcome = "raise"
    /\ \E i \in 1..(Len(fetch_log[t]) - 1) : fetch_log[t][i].outcome = "ok"

(* C22: when get_content leaves error_message set the turn goes to handle_error
   if fetched_content_map is empty and to synthesize_answer if it holds an
   item; a fetch that fails after an earlier fetch of the turn succeeded ends
   in an answer made by synthesize_answer, not in an error answer. *)
C22_ErrorAfterGetContent ==
    \A t \in Turns :
        /\ (AfterGetContent(t) /\ Truthy(st[t].error_message)) =>
               pc[t] = (IF MapSize(st[t]) = 0 THEN "handle_error" ELSE "synthesize_answer")
        /\ (FailedAfterPartialSuccess(t) /\ Done(t)) =>
               /\ hist[t].last = "synthesize_answer"
               /\ result[t].final_answer \notin {CriticalErrorText, FetchErrorText}

\* analyze_input has just returned an analysis (it neither raised nor hit the
\* iteration ceiling)
Analyzed(t) == AfterAnalysis(t) /\ "initial_analysis" \in DOMAIN frame[t].last_update

(* C23: analyze_input derives search_query in this order: (a) when the
   "content of <title> note" pattern yields a title, the intent becomes action
   and search_query is the title; (b) else when the intent is query_notes or
   search_request and there are keywords, search_query is the raw utterance;
   (c) else when a tool is required and there are keywords, search_query is
   the keywords joined by spaces; otherwise search_query stays unset. *)
C23_SearchQueryPrecedence ==
    \A t \in Turns :
        Analyzed(t) =>
            LET text == st[t].user_input
                a == analyze(text)
                title == SearchTitle(text, TitleMarkers)
            IN IF title # <<>>
               THEN st[t].initial_analysis.intent = "action" /\ st[t].search_query = title
               ELSE /\ st[t].initial_analysis.intent = a.intent
                    /\ st[t].search_query =
                           (IF a.intent \in {"query_notes", "search_request"} /\ a.keywords # <<>>
                            THEN text
                            ELSE IF a.requires_tool /\ a.keywords # <<>> THEN a.keywords
                            ELSE <<>>)

\* the last call of the content-fetch tool in this turn raised and get_content
\* is over
FetchFailed(t) ==
    /\ fetch_log[t] # <<>>
    /\ fetch_log[t][Len(fetch_log[t])].outcome = "raise"
    /\ pc[t] # "get_content_run"

(* C24: when the content-fetch call fails, get_content records an
   error_message and clears the fetch target: item_id_to_fetch and
   item_type_to_fetch are both unset from then on, so that the failing item is
   the pending target of no later step. *)
C24_FailureClearsTarget ==
    \A t \in Turns :
        FetchFailed(t) =>
            /\ st[t].item_id_to_fetch = NoId
            /\ st[t].item_type_to_fetch = None
            /\ hist[t].last = "get_content" => Truthy(st[t].error_message)

(* C25: a key enters fetched_content_map only when the content-fetch call
   succeeded: a fetch that failed (the tool raised, or its request to the
   backend failed) leaves the map as it was, so no error text is stored as the
   content of an item and a failed item counts neither toward the fetch cap
   nor as fetched. *)
C25_OnlySuccessfulFetchesStored ==
    \A t \in Turns :
        /\ \A i \in DOMAIN fetch_log[t] :
               fetch_log[t][i].outcome # "ok" =>
                   fetch_log[t][i].key \notin DOMAIN st[t].fetched_content_map
        /\ \A k \in DOMAIN st[t].fetched_content_map :
               st[t].fetched_content_map[k].shape = "item"

\* the text SearchNoteAppTool._run returns when its request to the backend failed
SearchTransportErrorOutput == SearchToolOutput(<<>>, "transport_error")

\* search_notes has just returned from a search whose request failed
SearchTransportFailed(t) ==
    /\ hist[t].last = "search_notes"
    /\ pc[t] \in {"get_content", "synthesize_answer", "handle_error"}
    /\ "messages" \in DOMAIN frame[t].last_update
    /\ frame[t].last_update.messages[1].tool_call_id = "search_noteapp_0"
    /\ frame[t].last_update.messages[1].content = SearchTransportErrorOutput

\* get_content has just returned from a fetch whose request failed
ContentTransportFailed(t) ==
    /\ AfterGetContent(t)
    /\ "fetched_content_map" \in DOMAIN frame[t].last_update
    /\ "item_id_to_fetch" \in DOMAIN frame[t].last_update
    /\ fetch_log[t][Len(fetch_log[t])].outcome = "transport_error"

\* the last entry of the message log is a tool result
LastIsToolResult(s) == s.messages # <<>> /\ s.messages[Len(s.messages)].role = "tool"

(* C26: every transport failure of the search tool or of the content-fetch
   tool (a network or backend error) sets error_message in the turn state and
   appends to the message log a tool-result entry that describes the failure. *)
C26_TransportFailureRecorded ==
    \A t \in Turns :
        /\ SearchTransportFailed(t) =>
               /\ Truthy(st[t].error_message)
               /\ LastIsToolResult(st[t])
               /\ st[t].messages[Len(st[t].messages)].content = SearchTransportErrorOutput
        /\ ContentTransportFailed(t) =>
               /\ Truthy(st[t].error_message)
               /\ LastIsToolResult(st[t])
               /\ st[t].messages[Len(st[t].messages)].content.shape = "error"

\* the search tool's call raised in this turn: search_notes logged its error entry
SearchRaised(t) ==
    \E i \in 1..Len(st[t].messages) :
        /\ st[t].messages[i].role = "tool"
        /\ st[t].messages[i].tool_call_id = "search_noteapp_error_0"

(* C27: when the call of the search tool raises, search_notes does not throw:
   it sets error_message, sets search_results to the empty list and leaves the
   fetch target unset, and the turn goes to handle_error with no content
   fetch. *)
C27_SearchFailure ==
    \A t \in Turns :
        /\ pc[t] = "EXC" => hist[t].last # "search_notes"
        /\ SearchRaised(t) =>
               /\ pc[t] \in {"handle_error", "END", "returned"}
               /\ hist[t].last \in {"search_notes", "handle_error"}
               /\ hist[t].last = "search_notes" => st[t].error_message = SearchErrorText
               /\ ResultsOf(st[t]) = <<>>
               /\ st[t].item_id_to_fetch = NoId
               /\ st[t].item_type_to_fetch = None
               /\ fetch_log[t] = <<>>
               /\ \A r \in sent : r.by = t => r.tool # "get_noteapp_content"

\* the turn is over: the search raised and only handle_error ran after it
C27_Witness ==
    \E t \in Turns :
        /\ Done(t)
        /\ SearchRaised(t)
        /\ hist[t].last = "handle_error"
        /\ hist[t].node_execs = 3

-----------------------------------------------------------------------------
(* search_notes and get_content as functions of the state they are entered   *)
(* with: the routers never send a turn to search_notes without a query or to *)
(* get_content without an item, so the entry state is drawn here             *)

EntryResults ==
    {<<>>} \cup {<<parse_search_output(SearchToolOutput(reply, "ok"))>> :
                    reply \in {REPLY_NONE, REPLY_NEGATIVE, REPLY_EXAMPLE}}

EntryStates(req) ==
    {[initial_graph_state(req) EXCEPT
          !.initial_analysis = AnalysisOf[req.user_input],
          !.iteration_count = 1,
          !.search_query = q,
          !.search_results = r,
          !.item_type_to_fetch = k[1],
          !.item_id_to_fetch = k[2],
          !.fetched_content_map = m] :
        q \in {<<>>, req.user_input}, r \in EntryResults,
        k \in {NoKey, <<"note", 1>>}, m \in PriorMaps(1)}

InitEntry ==
    /\ InitCommon
    /\ pc \in {[t \in Turns |-> IF t = 1 THEN node ELSE "idle"] :
                  node \in {"search_notes", "get_content"}}
    /\ request \in {[t \in Turns |-> IF t = 1 THEN r ELSE NoRequest] : r \in Requests(1, {U_QUERY})}
    /\ env \in {[t \in Turns |-> [reply |-> r]] : r \in {REPLY_EXAMPLE, REPLY_NONE}}
    /\ st \in {[t \in Turns |-> IF t = 1 THEN s ELSE Checkpoint(EmptyMap)] :
                  s \in EntryStates(request[1])}

NextEntry ==
    \E t \in Turns :
        \/ SearchNotesSetAuth(t)
        \/ SearchNotesRun(t)
        \/ GetContentSetAuth(t)
        \/ GetContentRun(t)
        \/ SynthesizeAnswer(t)
        \/ HandleError(t)
        \/ InvokeReturn(t)
        \/ InvokeCatch(t)

SpecEntry == InitEntry /\ [][NextEntry]_vars

\* search_notes is entered with no search_query
MissingQuery(t) == pc[t] = "search_notes" /\ st[t].search_query = <<>>

\* get_content is entered with no target and no result to pick
MissingItem(t) ==
    /\ pc[t] = "get_content"
    /\ st[t].item_id_to_fetch = NoId \/ st[t].item_type_to_fetch = None
    /\ \A i \in 1..Len(ResultsOf(st[t])) :
           \/ ResultsOf(st[t])[i].relevance < 1
           \/ Key(ResultsOf(st[t])[i]) \in DOMAIN st[t].fetched_content_map

\* the node of turn t returns in this step without raising and without a call
\* of a tool's set_auth or run
ReturnsWithoutTool(t) ==
    /\ pc'[t] \in {"handle_error", "synthesize_answer"}
    /\ UNCHANGED <<search_auth, content_auth, sent, fetch_log>>

(* C28 as claimed: in the missing-precondition cases (search_notes with an
   empty or unset search_query, get_content with no fetch target and no
   qualifying search result) the node neither raises nor calls a tool, and the
   update it returns sets error_message and nothing else. *)
C28_OnlyErrorMessage ==
    [][\A t \in Turns :
           ((MissingQuery(t) \/ MissingItem(t)) /\ pc'[t] # pc[t]) =>
               /\ ReturnsWithoutTool(t)
               /\ DOMAIN frame'[t].last_update = {"error_message"}
               /\ Truthy(frame'[t].last_update.error_message)]_vars

(* C28: in the missing-precondition cases the node neither raises nor calls a
   tool; get_content returns an update of error_message alone, search_notes
   an update of error_message and casual_exchange_count = 0; in both cases no
   field of the state other than error_message changes its value. *)
C28_MissingPrecondition ==
    [][\A t \in Turns :
           ((MissingQuery(t) \/ MissingItem(t)) /\ pc'[t] # pc[t]) =>
               /\ ReturnsWithoutTool(t)
               /\ frame'[t].last_update =
                      (IF MissingQuery(t)
                       THEN [error_message |-> NoQueryText, casual_exchange_count |-> 0]
                       ELSE [error_message |-> NoMoreItemsText])
               /\ st'[t] = [st[t] EXCEPT !.error_message = frame'[t].last_update.error_message]
               /\ pc'[t] = (IF MissingQuery(t) \/ MapSize(st[t]) = 0
                            THEN "handle_error" ELSE "synthesize_answer")]_vars

\* get_content found neither a target nor a result above its floor although
\* the search had returned results
C28_Witness ==
    \E t \in Turns :
        /\ hist[t].last = "get_content"
        /\ hist[t].node_execs = 1
        /\ frame[t].last_update = [error_message |-> NoMoreItemsText]
        /\ ResultsOf(st[t]) # <<>>
        /\ pc[t] = "handle_error"

-----------------------------------------------------------------------------
(* Consecutive turns of one conversation: invoke is called again with the   *)
(* same user_id, hence on the same thread and its checkpointed state         *)

MaxTurns == 2

ThreadUtterances == {U_HELLO, U_QUERY}

\* the next call of invoke on the thread of a turn that has returned
InvokeAgain(t) ==
    /\ pc[t] = "returned"
    /\ hist[t].turn < MaxTurns
    /\ \E req \in Requests(t, ThreadUtterances) :
           /\ req.chat_history = <<>>
           /\ request' = [request EXCEPT ![t] = req]
           /\ st' = [st EXCEPT ![t] = ApplyUpdate(@, initial_graph_state(req))]
    /\ hist' = [hist EXCEPT ![t] =
                   [NoHist EXCEPT !.turn = hist[t].turn + 1,
                                  !.casual_before = IF hist[t].last = "casual_chat"
                                                    THEN hist[t].casual_before + 1 ELSE 0]]
    /\ pc' = [pc EXCEPT ![t] = "analyze_input"]
    /\ fetch_log' = [fetch_log EXCEPT ![t] = <<>>]
    /\ frame' = [frame EXCEPT ![t] = NoFrame]
    /\ result' = [result EXCEPT ![t] = NoResult]
    /\ UNCHANGED <<impl, env, search_auth, content_auth, sent>>

\* a new conversation: nothing is checkpointed for the thread
InitThread ==
    /\ InitCommon
    /\ pc = [t \in Turns |-> "idle"]
    /\ request \in {[t \in Turns |-> IF t = 1 THEN r ELSE NoRequest] :
                       r \in {q \in Requests(1, ThreadUtterances) : q.chat_history = <<>>}}
    /\ env \in {[t \in Turns |-> [reply |-> r]] : r \in {REPLY_EXAMPLE, REPLY_NONE}}
    /\ st = [t \in Turns |-> Checkpoint(EmptyMap)]

NextThread ==
    \E t \in Turns :
        \/ Invoke(t)
        \/ AnalyzeInput(t)
        \/ SearchNotesSetAuth(t)
        \/ SearchNotesRun(t)
        \/ GetContentSetAuth(t)
        \/ GetContentRun(t)
        \/ SynthesizeAnswer(t)
        \/ CasualChat(t)
        \/ HandleError(t)
        \/ InvokeReturn(t)
        \/ InvokeCatch(t)
        \/ InvokeAgain(t)

SpecThread == InitThread /\ [][NextThread]_vars

\* the number of consecutive most recent turns resolved by casual_chat, the
\* turn that has just returned included
CasualStreak(t) == IF hist[t].last = "casual_chat" THEN hist[t].casual_before + 1 ELSE 0

(* C29: when a turn has returned, casual_exchange_count is the number of
   consecutive most recent turns of the conversation that were resolved by
   casual_chat; it is 0 after a turn in which search_notes or get_content
   ran. *)
C29_CasualExchangeCount ==
    \A t \in Turns :
        Done(t) => st[t].casual_exchange_count = CasualStreak(t)

\* the fields casual_chat has no business with
ToolFields(s) ==
    <<s.search_query, s.search_results, s.fetched_content_map, s.item_id_to_fetch,
      s.item_type_to_fetch>>

(* C30: a turn routed to casual_chat calls no tool; casual_chat leaves
   search_query, search_results, fetched_content_map and the fetch target as
   they were, appends exactly one assistant message and sets final_answer, and
   besides these writes only casual_exchange_count or error_message; the turn
   ends there. *)
C30_CasualChatFrame ==
    [][\A t \in Turns :
           (pc[t] = "casual_chat" /\ pc'[t] # pc[t]) =>
               /\ pc'[t] = "END"
               /\ fetch_log[t] = <<>> /\ \A r \in sent : r.by # t
               /\ UNCHANGED <<search_auth, content_auth, sent, fetch_log>>
               /\ ToolFields(st'[t]) = ToolFields(st[t])
               /\ st'[t].messages = Append(st[t].messages, AIMessage(st'[t].final_answer))
               /\ st'[t].final_answer = frame'[t].last_update.final_answer
               /\ {"messages", "final_answer"} \subseteq DOMAIN frame'[t].last_update
               /\ DOMAIN frame'[t].last_update \subseteq
                      {"messages", "final_answer", "casual_exchange_count", "error_message"}
               /\ \A f \in DOMAIN st[t] \ DOMAIN frame'[t].last_update : st'[t][f] = st[t][f]]_vars

\* casual_chat has answered on a thread whose map holds items of earlier turns
C30_Witness ==
    \E t \in Turns :
        /\ hist[t].last = "casual_chat"
        /\ pc[t] = "END"
        /\ MapSize(st[t]) = 2
        /\ st[t].final_answer = LlmReplyText
        /\ st[t].casual_exchange_count = 1

-----------------------------------------------------------------------------
(* The message log and the fields seeded by invoke *)

IsPrefix(a, b) == Len(a) <= Len(b) /\ SubSeq(b, 1, Len(a)) = a

\* the turn is inside the graph: a node is about to run or is running
InGraph(t) == pc[t] \notin {"idle", "END", "EXC", "returned"}

(* C31: the message log is append-only: in every step the log of the state
   before is a prefix of the log after (no entry is removed, reordered or
   rewritten), and a step of a node appends at most one entry. *)
C31_AppendOnlyLog ==
    [][\A t \in Turns :
           /\ IsPrefix(st[t].messages, st'[t].messages)
           /\ InGraph(t) => Len(st'[t].messages) <= Len(st[t].messages) + 1]_vars

\* a turn on a thread with earlier messages has logged the utterance, the
\* search output, the text of an item and the answer
C31_Witness ==
    \E t \in Turns :
        /\ Done(t)
        /\ Len(fetch_log[t]) = 1
        /\ Len(st[t].messages) = 2 + Len(HistoryMessages(request[t].chat_history)) + 4
        /\ st[t].messages[1] = HumanMessage(U_QUERY)
        /\ st[t].messages[Len(st[t].messages)].role = "ai"

\* the keys of the state that invoke seeds for the turn's nodes to read
SeededKeys == {"user_input", "original_user_input", "user_id", "jwt_token"}

(* C32: no node changes user_input, original_user_input, user_id or the auth
   token: no update returned by a node names one of them, and from invoke on
   the state of the turn holds the values of the request. *)
C32_SeededFieldsFrozen ==
    [][\A t \in Turns :
           /\ DOMAIN frame'[t].last_update \cap SeededKeys = {}
           /\ pc'[t] # "idle" =>
                  /\ st'[t].user_input = request'[t].user_input
                  /\ st'[t].user_id = request'[t].user_id
                  /\ st'[t].jwt_token = request'[t].jwt_token
           /\ InGraph(t) =>
                  \A f \in SeededKeys \cap DOMAIN st[t] : st'[t][f] = st[t][f]]_vars

\* a turn that went through five nodes returns with the request's values
C32_Witness ==
    \E t \in Turns :
        /\ Done(t)
        /\ hist[t].node_execs = 5
        /\ st[t].user_input = U_FIND
        /\ st[t].user_id = UserId(t)
        /\ st[t].jwt_token = Token(t)

\* synthesize_answer has run in this turn
Synthesized(t) == hist[t].last = "synthesize_answer" /\ pc[t] \in {"END", "returned"}

\* some fetched text begins with "Note: <title>" or "Transcript: <title>" where
\* <title>, in lower case, is the title the utterance asks for
TitleMatch(s) ==
    /\ TargetTitleOf[s.user_input] # <<>>
    /\ \E k \in DOMAIN s.fetched_content_map :
           /\ s.fetched_content_map[k].shape = "item"
           /\ LowerTitle(s.fetched_content_map[k].title) = TargetTitleOf[s.user_input]

\* no search result of relevance 0.01 or more and nothing fetched
NothingFound(s) ==
    /\ MapSize(s) = 0
    /\ \A i \in 1..Len(ResultsOf(s)) : ResultsOf(s)[i].relevance < 1

(* C33: synthesize_answer hands the model exactly one of five instructions,
   chosen in this priority: (1) get-content request and a fetched entry whose
   title is the requested one: verbatim; (2) get-content request, content
   fetched, no title match: disclosure; (3) get-content request, nothing
   fetched: apology; (4) no search result of relevance >= 0.01 and nothing
   fetched: no matches; (5) otherwise the default instruction. *)
C33_SynthesisBranches ==
    \A t \in Turns :
        Synthesized(t) =>
            LET s == st[t]
                get == IsGetContentRequest[s.user_input]
                b == frame[t].prompt
            IN /\ b \in {"verbatim", "no_exact_match", "nothing_fetched", "no_results", "default"}
               /\ b = "verbatim" <=> (get /\ TitleMatch(s))
               /\ b = "no_exact_match" <=> (get /\ ~TitleMatch(s) /\ MapSize(s) > 0)
               /\ b = "nothing_fetched" <=> (get /\ MapSize(s) = 0)
               /\ b = "no_results" <=> (~get /\ NothingFound(s))
               /\ b = "default" <=> (~get /\ ~NothingFound(s))

\* a get-content request whose search found nothing: the apology of branch 3
\* is chosen, not the "no matches" instruction of branch 4
C33_Witness ==
    \E t \in Turns :
        /\ Synthesized(t)
        /\ IsGetContentRequest[st[t].user_input]
        /\ NothingFound(st[t])
        /\ frame[t].prompt = "nothing_fetched"

-----------------------------------------------------------------------------
(* C34: classify_intent *)

\* number of the intent's trigger words, and of its trigger patterns, that the
\* text contains
WordHits(intent, text) == Cardinality({w \in TriggerWords(intent) : Occurs(w, text)})
PatternHits(intent, text) == Cardinality({p \in TriggerPatterns(intent) : Occurs(p, text)})

\* 0.3 per word and 0.5 per pattern, in tenths
Weighted(intent, text) == 3 * WordHits(intent, text) + 5 * PatternHits(intent, text)

Intents == Range(IntentOrder)

(* C34: for every analyzed, non-empty utterance the classifier's result is an
   intent whose weighted score (0.3 per contained trigger word, 0.5 per
   contained trigger pattern) is maximal, with confidence min(score, 1.0);
   when every score is 0 the result is CASUAL with confidence 0.5; the
   confidence lies within [0, 1]; and the analysis stored in the state
   carries that confidence. *)
C34_ClassifyIntent ==
    \A t \in Turns :
        (Analyzed(t) /\ st[t].user_input # <<>>) =>
            LET text == st[t].user_input
                c == classify_intent(text)
                a == st[t].initial_analysis
            IN /\ c.intent \in Intents
               /\ c.confidence \in 0..10
               /\ a.confidence = c.confidence
               /\ (\A i \in Intents : Weighted(i, text) = 0)
                      => (c.intent = "casual" /\ c.confidence = 5)
               /\ (\E i \in Intents : Weighted(i, text) > 0)
                      => /\ \A i \in Intents : Weighted(i, text) <= Weighted(c.intent, text)
                         /\ c.confidence = IF Weighted(c.intent, text) < 10
                                           THEN Weighted(c.intent, text) ELSE 10

\* an utterance whose best score, 1.6, is capped at 1.0
C34_Witness ==
    \E t \in Turns :
        /\ Analyzed(t)
        /\ st[t].user_input = U_CANFIND
        /\ Weighted("query_notes", U_CANFIND) = 16
        /\ st[t].initial_analysis.confidence = 10

-----------------------------------------------------------------------------
(* preprocessing/typo_corrector.py: TypoCorrector.correct.  Here a text is  *)
(* the sequence of its characters.                                         *)

\* "   "
T_BLANK == <<" ", " ", " ">>
\* "helo wrld"
T_HELO == <<"h", "e", "l", "o", " ", "w", "r", "l", "d">>
\* "remembr to buy milk"
T_MILK ==
    <<"r", "e", "m", "e", "m", "b", "r", " ", "t", "o", " ", "b",
      "u", "y", " ", "m", "i", "l", "k">>
\* " find  my   notes "
T_GAPS ==
    <<" ", "f", "i", "n", "d", " ", " ", "m", "y", " ", " ", " ",
      "n", "o", "t", "e", "s", " ">>
\* "buy<tab>milk<newline>"
T_TAB == <<"b", "u", "y", "\t", "m", "i", "l", "k", "\n">>
\* a, backslash, s, s, b
T_SLASH == <<"a", "\\", "s", "s", "b">>
\* backslash, s
T_ONLY_SLASH == <<"\\", "s">>

RawTexts == {<<>>, T_BLANK, T_HELO, T_MILK, T_GAPS, T_TAB, T_SLASH, T_ONLY_SLASH}

\* what the language model may answer
R_EMPTY == <<>>
R_BLANK == <<" ">>
\* "ok"
R_OK == <<"o", "k">>
\* "hello world"
R_HELLO == <<"h", "e", "l", "l", "o", " ", "w", "o", "r", "l", "d">>
\* "remember to buy milk "
R_MILK ==
    <<"r", "e", "m", "e", "m", "b", "e", "r", " ", "t", "o", " ",
      "b", "u", "y", " ", "m", "i", "l", "k", " ">>
\* "find my notes"
R_FIND == <<"f", "i", "n", "d", " ", "m", "y", " ", "n", "o", "t", "e", "s">>
\* "I cannot fulfill that"
R_REFUSE ==
    <<"I", " ", "c", "a", "n", "n", "o", "t", " ", "f", "u", "l",
      "f", "i", "l", "l", " ", "t", "h", "a", "t">>
\* "Unable to process"
R_UNABLE ==
    <<"U", "n", "a", "b", "l", "e", " ", "t", "o", " ", "p", "r",
      "o", "c", "e", "s", "s">>

Corrections == {R_EMPTY, R_BLANK, R_OK, R_HELLO, R_MILK, R_FIND, R_REFUSE, R_UNABLE}

\* llm.ainvoke raises, returns a response whose content is not a string (its
\* .strip() raises AttributeError), or returns a text
CorrectorOutcomes ==
    {[kind |-> "raise", content |-> <<>>], [kind |-> "not_text", content |-> <<>>]}
    \cup {[kind |-> "text", content |-> c] : c \in Corrections}

IsSpace(c) == c \in {" ", "\t", "\n"}

RECURSIVE lstrip(_)
lstrip(s) == IF s # <<>> /\ IsSpace(Head(s)) THEN lstrip(Tail(s)) ELSE s

RECURSIVE rstrip(_)
rstrip(s) ==
    IF s # <<>> /\ IsSpace(s[Len(s)]) THEN rstrip(SubSeq(s, 1, Len(s) - 1)) ELSE s

\* str.strip()
strip(s) == rstrip(lstrip(s))

\* str.lower() on the letters of the texts above
lower(s) == [i \in DOMAIN s |-> CASE s[i] = "I" -> "i" [] s[i] = "U" -> "u" [] OTHER -> s[i]]

RECURSIVE SkipS(_)
SkipS(s) == IF s # <<>> /\ Head(s) = "s" THEN SkipS(Tail(s)) ELSE s

\* re.sub(r'\\s+', ' ', text): the raw string holds two backslashes, so the
\* pattern is a literal backslash followed by one or more letters s
RECURSIVE sub_backslash_s(_)
sub_backslash_s(s) ==
    IF s = <<>> THEN <<>>
    ELSE IF Head(s) = "\\" /\ Len(s) >= 2 /\ s[2] = "s"
         THEN <<" ">> \o sub_backslash_s(SkipS(Tail(s)))
         ELSE <<Head(s)>> \o sub_backslash_s(Tail(s))

normalized_text(text) == strip(sub_backslash_s(text))

CANNOT_FULFILL ==
    <<"c", "a", "n", "n", "o", "t", " ", "f", "u", "l", "f", "i", "l", "l">>
UNABLE_TO_PROCESS ==
    <<"u", "n", "a", "b", "l", "e", " ", "t", "o", " ", "p", "r", "o", "c", "e", "s", "s">>

\* lines 53-70: the try block and its except branch
validated(normalized, outcome) ==
    IF outcome.kind # "text" THEN normalized
    ELSE LET corrected_text == strip(outcome.content)
         IN IF \/ corrected_text = <<>>
               \/ (2 * Len(corrected_text) < Len(normalized) /\ Len(normalized) > 10)
            THEN normalized
            ELSE IF \/ \E i \in 1..Len(corrected_text) :
                           MatchesAt(CANNOT_FULFILL, lower(corrected_text), i)
                    \/ \E i \in 1..Len(corrected_text) :
                           MatchesAt(UNABLE_TO_PROCESS, lower(corrected_text), i)
                 THEN normalized
                 ELSE corrected_text

NoCorrection == [returned |-> FALSE, text |-> <<>>]

\* lines 29-51: the two early returns, else the call of the language model
Correct(t) ==
    /\ pc[t] = "correct"
    /\ LET text == request[t].text
       IN IF text = <<>> \/ strip(text) = <<>> \/ normalized_text(text) = <<>>
          THEN /\ pc' = [pc EXCEPT ![t] = "corrected"]
               /\ result' = [result EXCEPT ![t] = [returned |-> TRUE, text |-> <<>>]]
               /\ st' = st
          ELSE /\ pc' = [pc EXCEPT ![t] = "ainvoke"]
               /\ st' = [st EXCEPT ![t] = [normalized_text |-> normalized_text(text)]]
               /\ result' = result
    /\ UNCHANGED <<impl, request, env, search_auth, content_auth, sent, fetch_log, hist, frame>>

\* lines 53-70: the model's answer, or its exception, and the validation
CorrectResume(t) ==
    /\ pc[t] = "ainvoke"
    /\ pc' = [pc EXCEPT ![t] = "corrected"]
    /\ result' = [result EXCEPT ![t] =
                     [returned |-> TRUE, text |-> validated(st[t].normalized_text, env[t].llm)]]
    /\ UNCHANGED <<impl, request, env, st, search_auth, content_auth, sent, fetch_log, hist,
                   frame>>

\* one call of correct per slot, on any of the texts with any answer
InitTypo ==
    /\ impl = "modular"
    /\ search_auth = NoAuth
    /\ content_auth = NoAuth
    /\ sent = {}
    /\ fetch_log = [t \in Turns |-> <<>>]
    /\ hist = [t \in Turns |-> NoHist]
    /\ frame = [t \in Turns |-> NoFrame]
    /\ result = [t \in Turns |-> NoCorrection]
    /\ pc = [t \in Turns |-> IF t = 1 THEN "correct" ELSE "corrected"]
    /\ request \in {[t \in Turns |-> [text |-> IF t = 1 THEN x ELSE <<>>]] : x \in RawTexts}
    /\ env \in {[t \in Turns |-> [llm |-> o]] : o \in CorrectorOutcomes}
    /\ st = [t \in Turns |-> [normalized_text |-> <<>>]]

NextTypo == \E t \in Turns : Correct(t) \/ CorrectResume(t)

SpecTypo == InitTypo /\ [][NextTypo]_vars

RECURSIVE Collapse(_)
\* runs of whitespace replaced by one space
Collapse(s) ==
    IF s = <<>> THEN <<>>
    ELSE IF IsSpace(Head(s)) THEN <<" ">> \o Collapse(lstrip(s))
         ELSE <<Head(s)>> \o Collapse(Tail(s))

\* the original with runs of whitespace collapsed to single spaces, trimmed
WhitespaceNormalized(text) == strip(Collapse(text))

\* the language model's answer is one correct discards: the call threw, or the
\* correction is empty, shorter than half of a text of more than 10
\* characters, or holds a refusal phrase
Rejected(t) ==
    LET o == env[t].llm
        c == strip(o.content)
    IN \/ o.kind # "text"
       \/ c = <<>>
       \/ (2 * Len(c) < Len(st[t].normalized_text) /\ Len(st[t].normalized_text) > 10)
       \/ \E i \in 1..Len(c) : MatchesAt(CANNOT_FULFILL, lower(c), i)
       \/ \E i \in 1..Len(c) : MatchesAt(UNABLE_TO_PROCESS, lower(c), i)

Consulted(t) == pc[t] = "corrected" /\ st[t].normalized_text # <<>>

(* C35: correct always returns, and when the language-model call throws or
   its correction is empty, implausibly short or a refusal, correct returns
   the original text with runs of whitespace collapsed to single spaces and
   trimmed. *)
C35_RejectedCorrectionFallback ==
    \A t \in Turns :
        /\ pc[t] = "corrected" /\ request[t].text # <<>> => result[t].returned
        /\ (Consulted(t) /\ Rejected(t)) =>
               result[t].text = WhitespaceNormalized(request[t].text)

\* what the code does: the fallback is the original with only its ends
\* trimmed (and backslash-s sequences replaced), and an accepted correction is
\* the model's answer, trimmed
C35_FallbackIsTrimmedOriginal ==
    \A t \in Turns :
        Consulted(t) =>
            /\ result[t].returned
            /\ Rejected(t) => result[t].text = strip(sub_backslash_s(request[t].text))
            /\ ~Rejected(t) => result[t].text = strip(env[t].llm.content)

\* the rejected correction is returned in no case
C35_UncollapsedFallback ==
    \E t \in Turns :
        /\ Consulted(t) /\ Rejected(t)
        /\ request[t].text = T_GAPS
        /\ result[t].text # WhitespaceNormalized(T_GAPS)

-----------------------------------------------------------------------------
(* C36: the loop back to get_content *)

\* the turn is about to run get_content again, sent back by the router
LoopedBack(t) == pc[t] = "get_content" /\ hist[t].last = "get_content"

\* index i is the result the router identified: the most relevant of the
\* unfetched results of relevance 0.1 or more, the earliest among equals
RouterPick(t, i) ==
    /\ i \in Refetchable(t)
    /\ \A j \in Refetchable(t) :
           /\ ResultsOf(st[t])[j].relevance <= ResultsOf(st[t])[i].relevance
           /\ ResultsOf(st[t])[j].relevance = ResultsOf(st[t])[i].relevance => i <= j

LoopStep(t) ==
    /\ (LoopedBack(t) /\ hist'[t].node_execs # hist[t].node_execs) =>
           /\ pc'[t] = "get_content_run"
           /\ \E i \in Refetchable(t) :
                  /\ RouterPick(t, i)
                  /\ frame'[t].target = Key(ResultsOf(st[t])[i])
    /\ (pc[t] = "get_content_run" /\ pc'[t] # "get_content_run") =>
           /\ Len(fetch_log'[t]) = Len(fetch_log[t]) + 1
           /\ fetch_log'[t][Len(fetch_log'[t])].key = frame[t].target
    /\ st'[t].error_message # NoMoreItemsText
    /\ \A k \in 2..Len(fetch_log'[t]) :
           \E i \in 1..Len(ResultsOf(st'[t])) :
               /\ Key(ResultsOf(st'[t])[i]) = fetch_log'[t][k].key
               /\ ResultsOf(st'[t])[i].relevance >= 10

(* C36: whenever the router sends the turn back to get_content, get_content
   finds a target and calls the content tool for exactly the item the router
   identified (the most relevant unfetched result of relevance >= 0.1); no
   turn ever gets the error "No more relevant items to fetch content for.",
   and every fetch after the first of a turn is of a result of relevance
   >= 0.1. *)
C36_LoopFetchesRouterItem == [][\A t \in Turns : LoopStep(t)]_vars

\* a second fetch, of the second most relevant result, which is not the first
\* unfetched one in the order the search returned them
C36_Witness ==
    \E t \in Turns :
        /\ Done(t)
        /\ env[t].reply = REPLY_MANY
        /\ Len(fetch_log[t]) = 2
        /\ fetch_log[t][1].key = Key([type |-> "note", id |-> 1])
        /\ fetch_log[t][2].key = Key([type |-> "note", id |-> 2])

-----------------------------------------------------------------------------
(* C37: the inlined nodes and the nodes of modules/agent *)

\* analyze_input returns the same update in both node sets
C37_AnalyzeInputSame ==
    \A t \in Turns :
        pc[t] = "analyze_input" =>
            \A throws \in AnalyzerOutcomes(st[t].user_input) :
                analyze_input_node(st[t], "inline", throws)
                    = analyze_input_node(st[t], "modular", throws)

\* get_content does the same in both node sets when the content tool raises
C37_GetContentSame ==
    \A t \in Turns :
        pc[t] = "get_content_run" =>
            get_content_raised("inline", st[t]) = get_content_raised("modular", st[t])

(* C37: in every state of a turn and for every outcome of the analyzer and of
   the tools, the node inlined in NoteAppChatAgent and the node of the same
   name in modules/agent return the same update, so that the same successor
   node follows (the routers, search_notes and the success path of
   get_content are the same text in both). *)
C37_SameTransitionSystem == C37_AnalyzeInputSame /\ C37_GetContentSame

\* the two analyze_input nodes agree wherever the modular node extracts no
\* title from the utterance
C37_AnalyzeInputSameWithoutTitle ==
    \A t \in Turns :
        (pc[t] = "analyze_input" /\ TargetTitleOf[st[t].user_input] = <<>>) =>
            \A throws \in AnalyzerOutcomes(st[t].user_input) :
                analyze_input_node(st[t], "inline", throws)
                    = analyze_input_node(st[t], "modular", throws)

\* a get-content request about to be analyzed: the modular node searches for
\* the title, the inlined node has no search_query for it
C37_Divergence ==
    \E t \in Turns :
        /\ pc[t] = "analyze_input"
        /\ st[t].user_input = U_GET
        /\ analyze_input_node(st[t], "modular", FALSE).search_query = <<"groceries">>
        /\ analyze_input_node(st[t], "inline", FALSE).search_query = <<>>

-----------------------------------------------------------------------------
(* C38: the two tests for a get-content request *)

\* analyze_input extracted a title from the utterance and made it the search_query
TitleUsedAsQuery(t) ==
    /\ TargetTitleOf[st[t].user_input] # <<>>
    /\ st[t].search_query = TargetTitleOf[st[t].user_input]

GetContentBranches == {"verbatim", "no_exact_match", "nothing_fetched"}

(* C38: when analyze_input extracted a title from the utterance and used it as
   search_query, synthesize_answer treats the utterance as a get-content
   request too and takes one of the three get-content branches (verbatim,
   disclosure of no title match, apology for nothing fetched). *)
C38_GetContentRecognizedTwice ==
    \A t \in Turns :
        (Synthesized(t) /\ TitleUsedAsQuery(t)) =>
            /\ IsGetContentRequest[st[t].user_input]
            /\ frame[t].prompt \in GetContentBranches

\* the claim's case where it holds: the marker "full text of"
C38_Recognized ==
    \E t \in Turns :
        /\ Synthesized(t) /\ TitleUsedAsQuery(t)
        /\ st[t].user_input = U_GET
        /\ frame[t].prompt = "verbatim"

\* the marker "text of" alone: a title for analyze_input, no get-content request
\* for synthesize_answer, which answers the found note under the default prompt
C38_TextOfNotRecognized ==
    \E t \in Turns :
        /\ Synthesized(t) /\ TitleUsedAsQuery(t)
        /\ st[t].user_input = U_TEXT
        /\ MapSize(st[t]) > 0
        /\ frame[t].prompt = "default"

\* the two tests agree on every utterance whose marker is not a bare "text of"
C38_OtherMarkersRecognized ==
    \A t \in Turns :
        (Synthesized(t) /\ TitleUsedAsQuery(t) /\ st[t].user_input # U_TEXT) =>
            /\ IsGetContentRequest[st[t].user_input]
            /\ frame[t].prompt \in GetContentBranches

-----------------------------------------------------------------------------
(* C39: EMOTIONAL and CASUAL *)

\* some trigger word or trigger pattern of some intent occurs in the text
SomeTrigger(text) ==
    \E i \in Intents : \E w \in TriggerWords(i) \cup TriggerPatterns(i) : Occurs(w, text)

(* C39: the classifier never returns EMOTIONAL and returns CASUAL only for an
   utterance in which no trigger word or pattern of any intent occurs; the
   analysis in the state is therefore never EMOTIONAL, and a turn that is
   routed to casual_chat got there through the CASUAL case of the router. *)
C39_NeverEmotional ==
    \A t \in Turns :
        /\ st[t].initial_analysis.intent # "emotional"
        /\ Analyzed(t) =>
               LET c == classify_intent(st[t].user_input)
               IN /\ c.intent # "emotional"
                  /\ c.intent = "casual" => ~SomeTrigger(st[t].user_input)
                  /\ st[t].initial_analysis.intent = "casual" => ~SomeTrigger(st[t].user_input)
        /\ pc[t] = "casual_chat" =>
               /\ st[t].initial_analysis.intent = "casual"
               /\ st[t].search_query = <<>>

\* small talk without any trigger, routed to casual_chat as CASUAL
C39_Witness ==
    \E t \in Turns :
        /\ pc[t] = "casual_chat"
        /\ st[t].user_input = U_HELLO
        /\ ~SomeTrigger(U_HELLO)
        /\ st[t].initial_analysis.intent = "casual"
        /\ st[t].initial_analysis.confidence = 5

====
